---- MODULE Spec2Model ----
(***************************************************************************)
(* meaning.core: the HNSW index (HNSWIndex) and the dimension facade       *)
(* (MeaningDimension) over a content-addressed object store.               *)
(*                                                                         *)
(* Real numbers are exact rationals [n, d] (d > 0, lowest terms); the      *)
(* vectors of the model are chosen so that every square root taken by the  *)
(* metric kernel is the root of a perfect square.                          *)
(***************************************************************************)
EXTENDS Integers, Sequences, FiniteSets, TLC

VARIABLES index, last, fac, store, calls, now, saved, ghost

vars == <<index, last, fac, store, calls, now, saved, ghost>>

\* entryPoint: string | null -- object ids are 1..NumIds, 0 is null
Null == 0

(***************************************************************************)
(* Bounds of the model                                                     *)
(***************************************************************************)
NumIds == 3
MaxCoins == 1
MaxK == 2
NumObjects == 2
MaxTime == 1
MaxCalls == 2
MaxSteps == 4

(***************************************************************************)
(* Program constants                                                       *)
(***************************************************************************)
LevelCeiling == 16
DefaultM == 16
DefaultEfConstruction == 200
DefaultEfSearch == 50

DEFAULT_HNSW_CONFIG ==
    [M |-> DefaultM, efConstruction |-> DefaultEfConstruction, efSearch |-> DefaultEfSearch]

Metrics == {"cosine", "euclidean", "dot_product"}

(***************************************************************************)
(* Exact arithmetic                                                        *)
(***************************************************************************)
Abs(x) == IF x < 0 THEN -x ELSE x

RECURSIVE GCD(_, _)
GCD(a, b) == IF b = 0 THEN a ELSE GCD(b, a % b)

\* n / d in lowest terms with a positive denominator, g their gcd
Reduced(n, d, g) ==
    IF d < 0 THEN [n |-> (-n) \div g, d |-> (-d) \div g]
    ELSE [n |-> n \div g, d |-> d \div g]

Rat(n, d) == Reduced(n, d, GCD(Abs(n), Abs(d)))

RInt(i) == [n |-> i, d |-> 1]
RSub(a, b) == Rat(a.n * b.d - b.n * a.d, a.d * b.d)
RAdd(a, b) == Rat(a.n * b.d + b.n * a.d, a.d * b.d)
RNeg(a) == [n |-> -a.n, d |-> a.d]
RInv(a) == Rat(a.d, a.n)
RLess(a, b) == a.n * b.d < b.n * a.d
RLeq(a, b) == a.n * b.d <= b.n * a.d

\* Math.sqrt on the perfect squares the model's vectors produce
Sqrt(n) == CHOOSE r \in 0..n : r * r = n

(***************************************************************************)
(* Metric kernel (types/MeaningTypes)                                      *)
(***************************************************************************)
\* "for (let i = 0; i < a.length; i++) sum += a[i] * b[i]"
RECURSIVE dotFrom(_, _, _)
dotFrom(a, b, i) == IF i > Len(a) THEN 0 ELSE a[i] * b[i] + dotFrom(a, b, i + 1)

dotProduct(a, b) == dotFrom(a, b, 1)

\* "if (magnitude === 0) return 0; return dotProduct / magnitude"
cosineOf(dp, magnitude) == IF magnitude = 0 THEN RInt(0) ELSE Rat(dp, magnitude)

cosineSimilarity(a, b) ==
    cosineOf(dotProduct(a, b), Sqrt(dotProduct(a, a)) * Sqrt(dotProduct(b, b)))

\* "for (...) { const diff = a[i] - b[i]; sum += diff * diff }"
RECURSIVE squaresFrom(_, _, _)
squaresFrom(a, b, i) ==
    IF i > Len(a) THEN 0 ELSE (a[i] - b[i]) * (a[i] - b[i]) + squaresFrom(a, b, i + 1)

euclideanDistance(a, b) == RInt(Sqrt(squaresFrom(a, b, 1)))

\* HNSWIndex.distance
distance(metric, a, b) ==
    CASE metric = "cosine" -> RSub(RInt(1), cosineSimilarity(a, b))
      [] metric = "euclidean" -> euclideanDistance(a, b)
      [] metric = "dot_product" -> RNeg(RInt(dotProduct(a, b)))

\* the dot-product distance reported without negating it back
toSimilarityKeepSign(metric, dist) ==
    CASE metric = "cosine" -> RSub(RInt(1), dist)
      [] metric = "euclidean" -> RInv(RAdd(RInt(1), dist))
      [] metric = "dot_product" -> dist
      [] OTHER -> RSub(RInt(1), dist)

\* HNSWIndex.toSimilarity
toSimilarity(metric, dist) ==
    CASE metric = "cosine" -> RSub(RInt(1), dist)
      [] metric = "euclidean" -> RInv(RAdd(RInt(1), dist))
      [] metric = "dot_product" -> RNeg(dist)
      [] OTHER -> RSub(RInt(1), dist)

(***************************************************************************)
(* Map<string, HNSWNode> and Set<string> keep insertion order: both are    *)
(* sequences without repetition.                                           *)
(***************************************************************************)
Range(s) == {s[i] : i \in DOMAIN s}

SetAdd(s, x) == IF x \in Range(s) THEN s ELSE Append(s, x)

SetDelete(s, x) == SelectSeq(s, LAMBDA y : y # x)

NodeIds(ix) == {ix.nodes[i].id : i \in DOMAIN ix.nodes}

\* this.nodes.get(id), for a key that is present
getNode(ix, id) == ix.nodes[CHOOSE i \in DOMAIN ix.nodes : ix.nodes[i].id = id]

\* a list that is pushed to, where the code sets a map entry
setNodeAsPush(ix, node) == [ix EXCEPT !.nodes = Append(ix.nodes, node)]

\* this.nodes.set(id, node) and in-place mutation of a stored node
setNode(ix, node) ==
    IF node.id \in NodeIds(ix)
    THEN [ix EXCEPT !.nodes = [i \in DOMAIN ix.nodes |->
                                 IF ix.nodes[i].id = node.id THEN node ELSE ix.nodes[i]]]
    ELSE [ix EXCEPT !.nodes = Append(ix.nodes, node)]

\* new HNSWIndex(dimensions, metric, config)
newHNSWIndex(dimensions, metric, config) ==
    [dimensions |-> dimensions, metric |-> metric, config |-> config,
     entryPoint |-> Null, maxLevel |-> 0, nodes |-> <<>>]

size(ix) == Len(ix.nodes)

has(ix, objectHash) == objectHash \in NodeIds(ix)

getAllObjectHashes(ix) == [i \in DOMAIN ix.nodes |-> ix.nodes[i].id]

(***************************************************************************)
(* Array.prototype.sort((a, b) => a.dist - b.dist): a stable sort          *)
(***************************************************************************)
RECURSIVE insertByDist(_, _)
insertByDist(sorted, e) ==
    IF sorted = <<>> THEN <<e>>
    ELSE IF RLess(e.dist, sorted[Len(sorted)].dist)
         THEN Append(insertByDist(SubSeq(sorted, 1, Len(sorted) - 1), e), sorted[Len(sorted)])
         ELSE Append(sorted, e)

\* the sort left out
sortByDistNot(s) == s

RECURSIVE sortByDist(_)
sortByDist(s) ==
    IF s = <<>> THEN <<>>
    ELSE insertByDist(sortByDist(SubSeq(s, 1, Len(s) - 1)), s[Len(s)])

(***************************************************************************)
(* HNSWIndex.searchLayer                                                   *)
(***************************************************************************)
\* "if (results.length > ef) { results.sort(...); results.pop() }"
keepBest(pushed, ef) ==
    IF Len(pushed) > ef THEN SubSeq(sortByDist(pushed), 1, Len(pushed) - 1) ELSE pushed

\* "if (results.length < ef || dist < results[results.length - 1].dist)": the
\* neighbour e is pushed to candidates and results
admit(v, ef, e) ==
    IF Len(v.results) < ef \/ RLess(e.dist, v.results[Len(v.results)].dist)
    THEN [v EXCEPT !.candidates = Append(@, e),
                   !.results = keepBest(Append(@, e), ef)]
    ELSE v

\* the neighbour not marked
visitNot(st, neighborId) == st

\* "visited.add(neighborId)"
visit(st, neighborId) == [st EXCEPT !.visited = @ \cup {neighborId}]

\* the body of "for (const neighborId of connections)" for one neighbour
exploreNeighbor(ix, query, ef, neighborId, st) ==
    IF neighborId \in st.visited THEN st
    ELSE IF ~has(ix, neighborId) THEN visit(st, neighborId)
    ELSE admit(visit(st, neighborId), ef,
               [id |-> neighborId,
                dist |-> distance(ix.metric, query, getNode(ix, neighborId).embedding)])

RECURSIVE exploreNeighbors(_, _, _, _, _, _)
exploreNeighbors(ix, query, ef, connections, i, st) ==
    IF i > Len(connections) THEN st
    ELSE exploreNeighbors(ix, query, ef, connections, i + 1,
                          exploreNeighbor(ix, query, ef, connections[i], st))

\* "node.connections.get(level)", the empty list where it is undefined
connectionsAt(node, level) ==
    IF level \in DOMAIN node.connections THEN node.connections[level] ELSE <<>>

RECURSIVE searchLayerLoop(_, _, _, _, _)
RECURSIVE searchLayerTurn(_, _, _, _, _, _, _)
\* one turn of the loop: cs and rs are candidates and results after their sort
searchLayerTurn(ix, query, ef, level, visited, cs, rs) ==
    IF RLess(rs[Len(rs)].dist, Head(cs).dist) THEN sortByDist(rs)
    ELSE searchLayerLoop(ix, query, ef, level,
             exploreNeighbors(ix, query, ef,
                 connectionsAt(getNode(ix, Head(cs).id), level), 1,
                 [visited |-> visited, candidates |-> Tail(cs), results |-> rs]))

\* "while (candidates.length > 0)", then the final sort
searchLayerLoop(ix, query, ef, level, st) ==
    IF st.candidates = <<>> THEN sortByDist(st.results)
    ELSE searchLayerTurn(ix, query, ef, level, st.visited,
                         sortByDist(st.candidates), sortByDist(st.results))

\* visited, candidates and results start as the entry e
searchLayerStart(ix, query, ef, level, e) ==
    searchLayerLoop(ix, query, ef, level,
        [visited |-> {e.id}, candidates |-> <<e>>, results |-> <<e>>])

searchLayer(ix, query, entryId, ef, level) ==
    searchLayerStart(ix, query, ef, level,
        [id |-> entryId,
         dist |-> distance(ix.metric, query, getNode(ix, entryId).embedding)])

\* every candidate selected
selectNeighborsAll(candidates, M) == candidates

\* only the closest candidate selected
selectNeighborsOne(candidates, M) == SubSeq(candidates, 1, 1)

\* HNSWIndex.selectNeighbors: candidates.slice(0, M)
selectNeighbors(candidates, M) ==
    SubSeq(candidates, 1, IF Len(candidates) < M THEN Len(candidates) ELSE M)

(***************************************************************************)
(* HNSWIndex.randomLevel.  Math.random() is in [0, 1): the comparison      *)
(* against exp(-0 / mL) = 1 at level 0 always succeeds; with M = 1, mL is  *)
(* Infinity and every comparison is against 1; otherwise the threshold is  *)
(* strictly between 0 and 1 and the draw decides (coins[level]).  With     *)
(* M = 0, Math.log(M) is -Infinity, mL is -0 and -0 / -0 is NaN; with       *)
(* M < 0, Math.log(M) is NaN: the comparison against NaN is false.         *)
(***************************************************************************)
randomDraw(M, level, coins) ==
    IF M < 1 THEN FALSE
    ELSE IF level = 0 \/ M = 1 THEN TRUE
    ELSE level \in DOMAIN coins /\ coins[level]

RECURSIVE randomLevelFrom(_, _, _)
randomLevelFrom(M, coins, level) ==
    IF randomDraw(M, level, coins) /\ level < LevelCeiling
    THEN randomLevelFrom(M, coins, level + 1)
    ELSE level

randomLevel(M, coins) == randomLevelFrom(M, coins, 0)

(***************************************************************************)
(* HNSWIndex.add                                                           *)
(***************************************************************************)
Min(a, b) == IF a < b THEN a ELSE b
Max(a, b) == IF a > b THEN a ELSE b

\* "if (changed.length > 0) currObj = changed[0].id"
closestOr(changed, currObj) == IF Len(changed) > 0 THEN changed[1].id ELSE currObj

\* the greedy descent "for (l = from; l > stop; l--)" of add and search
RECURSIVE zoomIn(_, _, _, _, _)
zoomIn(ix, query, currObj, l, stop) ==
    IF l <= stop THEN currObj
    ELSE zoomIn(ix, query, closestOr(searchLayer(ix, query, currObj, 1, l), currObj),
                l - 1, stop)

\* node.connections.get(l)!.add(neighbor.id);
\* this.nodes.get(neighbor.id)!.connections.get(l)!.add(id)
connect(r, id, l, neighborId) ==
    IF r.err # "none" THEN r
    ELSE LET node == getNode(r.index, id)
             ix1 == setNode(r.index, [node EXCEPT !.connections[l] = SetAdd(@, neighborId)])
             neighbor == getNode(ix1, neighborId)
         IN  IF l \notin DOMAIN neighbor.connections
             THEN [index |-> ix1, err |-> "TypeError"]
             ELSE [index |-> setNode(ix1, [neighbor EXCEPT !.connections[l] = SetAdd(@, id)]),
                   err |-> "none"]

\* the loop over the selected neighbors linking none of them
connectNone(r, id, l, neighbors, i) == r

RECURSIVE connectAll(_, _, _, _, _)
connectAll(r, id, l, neighbors, i) ==
    IF i > Len(neighbors) THEN r
    ELSE connectAll(connect(r, id, l, neighbors[i].id), id, l, neighbors, i + 1)

RECURSIVE insertLayers(_, _, _, _, _)
RECURSIVE insertLayer(_, _, _, _, _, _)
\* one turn of the loop, with the candidates searchLayer found at layer l
insertLayer(r, id, embedding, currObj, l, candidates) ==
    insertLayers(connectAll(r, id, l, selectNeighbors(candidates, r.index.config.M), 1),
                 id, embedding, closestOr(candidates, currObj), l - 1)

\* "for (l = Math.min(level, this.maxLevel); l >= 0; l--)"
insertLayers(r, id, embedding, currObj, l) ==
    IF l < 0 \/ r.err # "none" THEN r
    ELSE insertLayer(r, id, embedding, currObj, l,
             searchLayer(r.index, embedding, currObj, r.index.config.efConstruction, l))

\* the "already indexed?" check never answering yes
alreadyIndexedNever(ix, id) == FALSE

\* "if (this.nodes.has(id)) return"
alreadyIndexed(ix, id) == id \in NodeIds(ix)

\* the node allocated with a connection set for layer 0 only
newNodeFlat(objectHash, meaningNodeHash, embedding, level) ==
    [id |-> objectHash, objectHash |-> objectHash, meaningNodeHash |-> meaningNodeHash,
     embedding |-> embedding, connections |-> [l \in 0..0 |-> <<>>], level |-> level]

\* the HNSWNode of add, with an empty connection set for each level 0..level
newNode(objectHash, meaningNodeHash, embedding, level) ==
    [id |-> objectHash, objectHash |-> objectHash, meaningNodeHash |-> meaningNodeHash,
     embedding |-> embedding, connections |-> [l \in 0..level |-> <<>>], level |-> level]

\* "if (level > this.maxLevel) { this.maxLevel = level; this.entryPoint = id }"
raiseEntry(r, objectHash, level) ==
    IF r.err = "none" /\ level > r.index.maxLevel
    THEN [r EXCEPT !.index.maxLevel = level, !.index.entryPoint = objectHash]
    ELSE r

\* add after this.nodes.set(id, node): ix1 holds the new node
insertNode(ix1, objectHash, embedding, level) ==
    IF ix1.entryPoint = Null
    THEN [index |-> [ix1 EXCEPT !.entryPoint = objectHash, !.maxLevel = level],
          err |-> "none"]
    ELSE raiseEntry(insertLayers([index |-> ix1, err |-> "none"], objectHash, embedding,
                                 zoomIn(ix1, embedding, ix1.entryPoint, ix1.maxLevel, level),
                                 Min(level, ix1.maxLevel)),
                    objectHash, level)

\* add without "if (embedding.length !== this.dimensions) throw"
addAnyWidth(ix, objectHash, meaningNodeHash, embedding, level) ==
    IF alreadyIndexed(ix, objectHash)
    THEN [index |-> ix, err |-> "none"]
    ELSE insertNode(setNode(ix, newNode(objectHash, meaningNodeHash, embedding, level)),
                    objectHash, embedding, level)

\* level is the value randomLevel() returns in this call
add(ix, objectHash, meaningNodeHash, embedding, level) ==
    IF Len(embedding) # ix.dimensions
    THEN [index |-> ix, err |-> "DimensionMismatch"]
    ELSE IF alreadyIndexed(ix, objectHash)
    THEN [index |-> ix, err |-> "none"]
    ELSE insertNode(setNode(ix, newNode(objectHash, meaningNodeHash, embedding, level)),
                    objectHash, embedding, level)

(***************************************************************************)
(* HNSWIndex.search                                                        *)
(***************************************************************************)
NoThreshold == [set |-> FALSE, value |-> RInt(0)]
Threshold(v) == [set |-> TRUE, value |-> v]

\* the cut to k entries left out
sliceAll(s, k) == s

\* Array.prototype.slice(0, k), k >= 0
slice(s, k) == SubSeq(s, 1, Min(k, Len(s)))

\* the HNSWSearchResult of one candidate
toResult(node, dist, metric) ==
    [objectHash |-> node.objectHash, meaningNodeHash |-> node.meaningNodeHash,
     similarity |-> toSimilarity(metric, dist)]

\* ".map(c => ...)" over the candidates that were kept
toResults(ix, cut) ==
    [i \in DOMAIN cut |-> toResult(getNode(ix, cut[i].id), cut[i].dist, ix.metric)]

\* "if (threshold !== undefined) return results.filter(r => r.similarity >= threshold)"
applyThreshold(results, threshold) ==
    [results |-> IF threshold.set
                 THEN SelectSeq(results, LAMBDA r : RLeq(threshold.value, r.similarity))
                 ELSE results,
     err |-> "none"]

search(ix, query, k, threshold) ==
    IF ix.entryPoint = Null THEN [results |-> <<>>, err |-> "none"]
    ELSE IF Len(query) # ix.dimensions
    THEN [results |-> <<>>, err |-> "DimensionMismatch"]
    ELSE applyThreshold(
             toResults(ix, slice(searchLayer(ix, query,
                                             zoomIn(ix, query, ix.entryPoint, ix.maxLevel, 0),
                                             Max(k, ix.config.efSearch), 0), k)),
             threshold)

(***************************************************************************)
(* HNSWIndex.remove                                                        *)
(***************************************************************************)
\* the neighbours' back-links left in place
unlinkNothing(ix, node) == ix

\* neighbor.connections.get(l)?.delete(id), for every neighbour at every level
unlink(ix, node) ==
    [ix EXCEPT !.nodes = [i \in DOMAIN ix.nodes |->
        LET n == ix.nodes[i]
        IN  [n EXCEPT !.connections = [l \in DOMAIN n.connections |->
                IF l \in 0..node.level /\ l \in DOMAIN node.connections
                   /\ n.id \in Range(node.connections[l])
                THEN SetDelete(n.connections[l], node.id)
                ELSE n.connections[l]]]]]

\* the election settling for the first node of the map
electEntryFirst(nodes, i, newEntry, newMaxLevel) ==
    [entryPoint |-> nodes[1].id, maxLevel |-> nodes[1].level]

\* "for (const [nodeId, n] of this.nodes) if (n.level > newMaxLevel) ..."
RECURSIVE electEntry(_, _, _, _)
electEntry(nodes, i, newEntry, newMaxLevel) ==
    IF i > Len(nodes) THEN [entryPoint |-> newEntry, maxLevel |-> newMaxLevel]
    ELSE IF nodes[i].level > newMaxLevel
         THEN electEntry(nodes, i + 1, nodes[i].id, nodes[i].level)
         ELSE electEntry(nodes, i + 1, newEntry, newMaxLevel)

\* the node left in the map
deleteNodeKept(ix, id) == ix

\* "this.nodes.delete(id)"
deleteNode(ix, id) == [ix EXCEPT !.nodes = SelectSeq(@, LAMBDA n : n.id # id)]

\* remove without the "Update entry point if needed" block
removeKeepEntry(ix, objectHash) ==
    IF ~has(ix, objectHash) THEN [index |-> ix, result |-> FALSE]
    ELSE [index |-> deleteNode(unlink(ix, getNode(ix, objectHash)), objectHash),
          result |-> TRUE]

remove(ix, objectHash) ==
    IF ~has(ix, objectHash) THEN [index |-> ix, result |-> FALSE]
    ELSE LET node == getNode(ix, objectHash)
             ix1 == unlink(ix, node)
             ix2 == deleteNode(ix1, objectHash)
         IN  [index |->
                 IF ix2.entryPoint = objectHash
                 THEN IF Len(ix2.nodes) = 0
                      THEN [ix2 EXCEPT !.entryPoint = Null, !.maxLevel = 0]
                      ELSE LET e == electEntry(ix2.nodes, 1, Null, 0)
                           IN  [ix2 EXCEPT !.entryPoint = e.entryPoint,
                                           !.maxLevel = e.maxLevel]
                 ELSE ix2,
              result |-> TRUE]

(***************************************************************************)
(* HNSWIndex.serialize / HNSWIndex.deserialize.  The document is the value *)
(* JSON.stringify writes and JSON.parse reads back: maps and sets become   *)
(* arrays in insertion order, and deserialize folds the arrays back.       *)
(***************************************************************************)
RECURSIVE ascending(_)
ascending(S) ==
    IF S = {} THEN <<>>
    ELSE LET m == CHOOSE x \in S : \A y \in S : x <= y
         IN  <<m>> \o ascending(S \ {m})

serialize(ix) ==
    [dimensions |-> ix.dimensions,
     metric |-> ix.metric,
     config |-> ix.config,
     entryPoint |-> ix.entryPoint,
     maxLevel |-> ix.maxLevel,
     nodes |-> [i \in DOMAIN ix.nodes |->
        LET node == ix.nodes[i]
            levels == ascending(DOMAIN node.connections)
        IN  [id |-> node.id,
             objectHash |-> node.objectHash,
             meaningNodeHash |-> node.meaningNodeHash,
             embedding |-> node.embedding,
             level |-> node.level,
             connections |-> [j \in DOMAIN levels |->
                 [level |-> levels[j], connections |-> node.connections[levels[j]]]]]]]

\* a set rebuilt from the array without its last element
newSetDropLast(arr) == SubSeq(arr, 1, Len(arr) - 1)

\* new Set(array)
RECURSIVE newSet(_)
newSet(arr) ==
    IF arr = <<>> THEN <<>>
    ELSE SetAdd(newSet(SubSeq(arr, 1, Len(arr) - 1)), arr[Len(arr)])

\* "for (const connData of nodeData.connections) node.connections.set(...)"
connectionsOf(connData) ==
    [l \in {connData[j].level : j \in DOMAIN connData} |->
        LET j == CHOOSE j \in DOMAIN connData :
                     /\ connData[j].level = l
                     /\ \A j2 \in DOMAIN connData : connData[j2].level = l => j2 <= j
        IN  newSet(connData[j].connections)]

\* {...DEFAULT_HNSW_CONFIG, ...config}
mergeConfig(config) ==
    [key \in DOMAIN DEFAULT_HNSW_CONFIG |->
        IF key \in DOMAIN config THEN config[key] ELSE DEFAULT_HNSW_CONFIG[key]]

RECURSIVE loadNodes(_, _, _)
loadNodes(ix, nodeList, i) ==
    IF i > Len(nodeList) THEN ix
    ELSE LET nodeData == nodeList[i]
             node == [id |-> nodeData.id,
                      objectHash |-> nodeData.objectHash,
                      meaningNodeHash |-> nodeData.meaningNodeHash,
                      embedding |-> nodeData.embedding,
                      level |-> nodeData.level,
                      connections |-> connectionsOf(nodeData.connections)]
         IN  loadNodes(setNode(ix, node), nodeList, i + 1)

deserialize(data) ==
    LET fresh == newHNSWIndex(data.dimensions, data.metric, mergeConfig(data.config))
    IN  loadNodes([fresh EXCEPT !.entryPoint = data.entryPoint,
                                !.maxLevel = data.maxLevel],
                  data.nodes, 1)

(***************************************************************************)
(* Inputs of the model                                                     *)
(***************************************************************************)
Ids == 1..NumIds

\* constructor argument "dimensions"
Dimensions == 2

\* every pairwise Euclidean distance and every norm is an integer
Vecs == {<<0, 0>>, <<3, 4>>, <<3, -4>>}

\* a vector of the wrong width
BadVec == <<1>>

Configs == {[M |-> 2, efConstruction |-> 1, efSearch |-> 1], DEFAULT_HNSW_CONFIG}

Coins == [1..MaxCoins -> BOOLEAN]

Thresholds == {NoThreshold, Threshold(RInt(0)), Threshold(Rat(1, 2))}

Models == {"custom", "all-MiniLM-L6-v2"}

\* a MeaningNode record and its content hash (content-addressed, so injective)
MeaningNode(embedding, model, dimensions, sourceText) ==
    [type |-> "MeaningNode", embedding |-> embedding, model |-> model,
     dimensions |-> dimensions, sourceText |-> sourceText, contentType |-> "text"]

SHA256(obj) == [hash |-> obj]

NoText == "undefined"

\* the id of the MeaningNode that carries this embedding
meaningNodeHashOf(embedding) ==
    SHA256(MeaningNode(embedding, "custom", Dimensions, NoText))

(***************************************************************************)
(* The index used directly: add, remove, serialize/deserialize.  search    *)
(* reads the index and changes nothing: it is the operator search, applied *)
(* to every reachable index.                                               *)
(***************************************************************************)
NoCall ==
    [op |-> "none", id |-> Null, err |-> "none", ready |-> FALSE, touched |-> FALSE,
     storeFailed |-> FALSE, result |-> [hash |-> [type |-> "none"]]]

Unused == [state |-> "unused"]

Init ==
    /\ index \in {newHNSWIndex(Dimensions, m, c) : m \in Metrics, c \in Configs}
    /\ last = NoCall
    /\ fac = Unused
    /\ store = Unused
    /\ calls = <<>>
    /\ now = 0
    /\ saved = Unused
    /\ ghost = Unused

Add ==
    \E objectHash \in Ids, embedding \in Vecs \cup {BadVec}, coins \in Coins :
        /\ index' = add(index, objectHash, meaningNodeHashOf(embedding), embedding,
                        randomLevel(index.config.M, coins)).index
        /\ UNCHANGED <<last, fac, store, calls, now, saved, ghost>>

Remove ==
    \E objectHash \in Ids :
        /\ index' = remove(index, objectHash).index
        /\ UNCHANGED <<last, fac, store, calls, now, saved, ghost>>

\* index = HNSWIndex.deserialize(index.serialize())
Restore ==
    /\ index' = deserialize(serialize(index))
    /\ UNCHANGED <<last, fac, store, calls, now, saved, ghost>>

Next == Add \/ Remove \/ Restore

Spec == Init /\ [][Next]_vars

\* the documents a caller hands to HNSWIndex.deserialize: the snapshot doc
\* with one field changed
Corruptions(doc) ==
    {[doc EXCEPT !.entryPoint = e] : e \in {Null, NumIds + 1}}
    \cup {[doc EXCEPT !.maxLevel = @ + 1] : i \in DOMAIN doc.nodes}
    \cup {[doc EXCEPT !.nodes[i].level = @ + 1] : i \in DOMAIN doc.nodes}
    \cup {[doc EXCEPT !.nodes[i].connections = Tail(@)] : i \in DOMAIN doc.nodes}
    \cup {[doc EXCEPT !.nodes[i].connections[1].connections = <<>>] : i \in DOMAIN doc.nodes}
    \cup {[doc EXCEPT !.nodes[i].embedding = BadVec] : i \in DOMAIN doc.nodes}

\* index = HNSWIndex.deserialize(json): the function has no throw statement,
\* so the caller gets an index for every document of the serialized shape
Load ==
    \E doc \in {serialize(index)} \cup Corruptions(serialize(index)) :
        /\ index' = deserialize(doc)
        /\ last' = [NoCall EXCEPT !.op = "deserialize", !.err = "none"]
        /\ UNCHANGED <<fac, store, calls, now, saved, ghost>>

\* the invariants of the data model that a document can break
entryPresent(ix) ==
    IF size(ix) = 0 THEN ix.entryPoint = Null ELSE has(ix, ix.entryPoint)

entryOnTop(ix) ==
    (size(ix) > 0 /\ has(ix, ix.entryPoint)) => getNode(ix, ix.entryPoint).level = ix.maxLevel

levelsBelowMax(ix) == \A n \in Range(ix.nodes) : n.level <= ix.maxLevel

symmetric(ix) ==
    \A n \in Range(ix.nodes) : \A l \in DOMAIN n.connections :
        \A j \in Range(n.connections[l]) :
            /\ has(ix, j)
            /\ l \in DOMAIN getNode(ix, j).connections
            /\ n.id \in Range(getNode(ix, j).connections[l])

keysToLevel(ix) == \A n \in Range(ix.nodes) : DOMAIN n.connections = 0..n.level

widthsMatch(ix) == \A n \in Range(ix.nodes) : Len(n.embedding) = ix.dimensions

dataModel(ix) ==
    /\ entryPresent(ix) /\ entryOnTop(ix) /\ levelsBelowMax(ix)
    /\ symmetric(ix) /\ keysToLevel(ix) /\ widthsMatch(ix)

\* add, remove and deserialize on an index that keeps the data model; what
\* they do on one that breaks it is not followed
LoadNext ==
    \/ dataModel(index) /\ Add
    \/ dataModel(index) /\ Remove
    \/ dataModel(index) /\ Load

LoadSpec == Init /\ [][LoadNext]_vars

(***************************************************************************)
(* validateEmbedding (types/MeaningTypes)                                  *)
(***************************************************************************)
\* the element that stands for NaN and the infinities
NonFinite == 999

isFinite(x) == x # NonFinite

\* validateEmbedding without the loop over the elements
validateEmbeddingWidth(embedding, expectedDimensions) ==
    IF Len(embedding) = 0 THEN "InvalidEmbedding"
    ELSE IF Len(embedding) # expectedDimensions THEN "InvalidEmbedding"
    ELSE "none"

validateEmbedding(embedding, expectedDimensions) ==
    IF Len(embedding) = 0 THEN "InvalidEmbedding"
    ELSE IF Len(embedding) # expectedDimensions THEN "InvalidEmbedding"
    ELSE IF \E i \in DOMAIN embedding : ~isFinite(embedding[i]) THEN "InvalidEmbedding"
    ELSE "none"

(***************************************************************************)
(* The object store (ONE.core): content-addressed, append-only.  objects   *)
(* holds the stored records in write order; a reverse map lists, in write  *)
(* order, the objects of one type that reference a hash.                   *)
(***************************************************************************)
NoObject == [type |-> "none"]

NoHash == SHA256(NoObject)

\* a CubeObject is written by the cube orchestrator; its hash is an object id
hashOf(obj) == IF obj.type = "CubeObject" THEN obj.id ELSE SHA256(obj)

\* storeUnversionedObject: writing an object that is there changes nothing
storeUnversionedObject(st, obj) == [st EXCEPT !.objects = SetAdd(@, obj)]

stored(st, obj) == obj \in Range(st.objects)

\* getObject: the record, or NoObject where the code gets an exception
getObject(st, hash) == IF stored(st, hash.hash) THEN hash.hash ELSE NoObject

references(obj, target, type) ==
    /\ obj.type = type
    /\ CASE type = "MeaningDimensionValue" -> obj.dimensionHash = target
         [] type = "CubeObject" -> obj.dimensionValue = target
         [] OTHER -> FALSE

\* getAllEntries(hash, type)
getAllEntries(st, target, type) ==
    LET refs == SelectSeq(st.objects, LAMBDA obj : references(obj, target, type))
    IN  [i \in DOMAIN refs |-> hashOf(refs[i])]

DimensionObject ==
    [type |-> "Dimension", name |-> "meaning", dataType |-> "object",
     standard |-> TRUE, shared |-> TRUE, packageName |-> "meaning.core"]

MeaningDimensionValue(dimensionHash, meaningNodeHash, created) ==
    [type |-> "MeaningDimensionValue", dimensionHash |-> dimensionHash,
     meaningNodeHash |-> meaningNodeHash, created |-> created]

CubeObject(id, dimensionValue) ==
    [type |-> "CubeObject", id |-> id, dimensionValue |-> dimensionValue]

\* the MeaningNode of getValueHash: no sourceText, no contentType
BareMeaningNode(embedding, model, dimensions) ==
    [type |-> "MeaningNode", embedding |-> embedding, model |-> model,
     dimensions |-> dimensions, sourceText |-> NoText, contentType |-> NoText]

(***************************************************************************)
(* MeaningDimension: constructor and the synchronous operations            *)
(***************************************************************************)
\* EMBEDDING_MODELS[model].dimensions
EMBEDDING_MODELS ==
    [model \in {"text-embedding-3-small", "text-embedding-ada-002"} |-> 1536]
    @@ [model \in {"text-embedding-3-large"} |-> 3072]
    @@ [model \in {"all-MiniLM-L6-v2", "bge-small-en-v1.5"} |-> 384]
    @@ [model \in {"all-mpnet-base-v2", "bge-base-en-v1.5", "nomic-embed-text",
                   "nomic-embed-text-v1.5"} |-> 768]
    @@ [model \in {"bge-large-en-v1.5"} |-> 1024]
    @@ [model \in {"custom"} |-> 0]

\* "if (!config.customDimensions)": the field is absent or is 0
noCustomDimensions(config) ==
    "customDimensions" \notin DOMAIN config \/ config.customDimensions = 0

\* what the constructor throws
constructorError(config) ==
    IF config.model = "custom" /\ noCustomDimensions(config) THEN "ConfigError" ELSE "none"

\* "Determine dimensions"
dimensionsOf(config) ==
    IF config.model = "custom" THEN config.customDimensions
    ELSE EMBEDDING_MODELS[config.model]

newMeaningDimension(config) ==
    [initialized |-> FALSE, dimensionHash |-> NoHash, model |-> config.model,
     dimensions |-> dimensionsOf(config), metric |-> config.metric,
     hnswConfig |-> config.hnswConfig, embeddingProvider |-> config.embeddingProvider]

newFacadeIndex(f) == newHNSWIndex(f.dimensions, f.metric, mergeConfig(f.hnswConfig))

\* MeaningDimension.query
query(f, ix, criterion) ==
    IF ~f.initialized THEN [err |-> "NotInitialized", results |-> <<>>]
    ELSE IF validateEmbedding(criterion.embedding, f.dimensions) # "none"
    THEN [err |-> "InvalidEmbedding", results |-> <<>>]
    ELSE LET r == search(ix, criterion.embedding, criterion.k, criterion.threshold)
         IN  [err |-> r.err,
              results |-> [i \in DOMAIN r.results |-> r.results[i].objectHash]]

\* MeaningDimension.queryWithScores
queryWithScores(f, ix, criterion) ==
    IF ~f.initialized THEN [err |-> "NotInitialized", results |-> <<>>]
    ELSE IF validateEmbedding(criterion.embedding, f.dimensions) # "none"
    THEN [err |-> "InvalidEmbedding", results |-> <<>>]
    ELSE search(ix, criterion.embedding, criterion.k, criterion.threshold)

\* MeaningDimension.isIndexed
isIndexed(f, ix, objectHash) == [err |-> "none", result |-> has(ix, objectHash)]

\* MeaningDimension.getIndexSize
getIndexSize(f, ix) == [err |-> "none", result |-> size(ix)]

\* MeaningDimension.getModel / getDimensions
getModel(f) == [err |-> "none", result |-> f.model]
getDimensions(f) == [err |-> "none", result |-> f.dimensions]

(***************************************************************************)
(* MeaningDimension: the asynchronous operations.  A call in flight is a    *)
(* record of calls; pc names the await it is suspended at.  Calls switch   *)
(* only at awaits: every action below runs one call from one await to the  *)
(* next (or to its return).                                                *)
(***************************************************************************)
FacIds == 1..NumObjects

FacVecs == {<<3, 4>>, <<3, -4>>}

\* the vectors validateEmbedding refuses: wrong width, empty, not finite
InvalidVecs == {BadVec, <<>>, <<3, NonFinite>>}

\* config.metric ?? 'cosine'
DefaultMetric == "cosine"

SmallConfig == [M |-> 2, efConstruction |-> 1, efSearch |-> 1]

FacConfig(metric, provider) ==
    [model |-> "custom", customDimensions |-> Dimensions, metric |-> metric,
     hnswConfig |-> SmallConfig, embeddingProvider |-> provider]

\* the configuration a facade was constructed with
configOf(f) ==
    [model |-> f.model, customDimensions |-> f.dimensions, metric |-> f.metric,
     hnswConfig |-> f.hnswConfig, embeddingProvider |-> f.embeddingProvider]

NewCall(f, op, pc, id, embedding, text) ==
    [op |-> op, pc |-> pc, id |-> id, embedding |-> embedding, text |-> text,
     meaningNodeHash |-> NoHash, dimValue |-> NoObject, todo |-> <<>>,
     ready |-> f.initialized, touched |-> FALSE]

\* what the caller of a finished call sees
Outcome(c, err, storeFailed, result) ==
    [op |-> c.op, id |-> c.id, err |-> err, ready |-> c.ready, touched |-> c.touched,
     storeFailed |-> storeFailed, result |-> result]

RemoveAt(s, i) == [j \in 1..(Len(s) - 1) |-> IF j < i THEN s[j] ELSE s[j + 1]]

NoGhost ==
    [steps |-> 0, returned |-> {}, deserialized |-> FALSE, restarted |-> FALSE,
     oldIds |-> {}, oldClean |-> FALSE, unread |-> {}]

\* indexEmbedding up to its first await: the two checks, then the MeaningNode
indexEmbeddingBegin(f, c) ==
    IF ~f.initialized THEN [err |-> "NotInitialized", call |-> c]
    ELSE IF validateEmbedding(c.embedding, f.dimensions) # "none"
    THEN [err |-> "InvalidEmbedding", call |-> c]
    ELSE [err |-> "none", call |-> [c EXCEPT !.pc = "storeNode"]]

\* the record whose write the call is suspended at
meaningNodeOf(f, c) ==
    IF c.op = "getValueHash" THEN BareMeaningNode(c.embedding, f.model, f.dimensions)
    ELSE MeaningNode(c.embedding, f.model, f.dimensions, c.text)

\* a store write of indexEmbedding / getValueHash rejects: the await rethrows
\* and nothing after it runs
storeFailureThenAdd(ix, c) ==
    [index |-> add(ix, c.id, c.meaningNodeHash, c.embedding, 1).index, err |-> "StoreError"]

storeFailure(ix, c) == [index |-> ix, err |-> "StoreError"]

\* the step of indexEmbedding that changes the index
indexAddSkipped(ix, c, level) == [index |-> ix, err |-> "none"]

indexAdd(ix, c, level) == add(ix, c.id, c.meaningNodeHash, c.embedding, level)

\* rebuildIndex: index.add for every CubeObject that references the value
RECURSIVE rebuildAdds(_, _, _, _, _, _)
RECURSIVE rebuildAdded(_, _, _, _, _, _)
\* an index.add that throws takes the nodes added so far with it
rebuildAddedOrNothing(r, cubeObjects, i, meaningNodeHash, embedding, coins) ==
    IF r.err # "none" THEN [r.index EXCEPT !.nodes = <<>>, !.entryPoint = Null, !.maxLevel = 0]
    ELSE rebuildAdds(r.index, cubeObjects, i + 1, meaningNodeHash, embedding, coins)

\* after one index.add: an error leaves the loop (it is caught around the entry)
rebuildAdded(r, cubeObjects, i, meaningNodeHash, embedding, coins) ==
    IF r.err # "none" THEN r.index
    ELSE rebuildAdds(r.index, cubeObjects, i + 1, meaningNodeHash, embedding, coins)

\* coins[i] are the draws of randomLevel in the i-th add
rebuildAdds(ix, cubeObjects, i, meaningNodeHash, embedding, coins) ==
    IF i > Len(cubeObjects) THEN ix
    ELSE rebuildAdded(add(ix, cubeObjects[i], meaningNodeHash, embedding,
                          randomLevel(ix.config.M, coins[i])),
                      cubeObjects, i, meaningNodeHash, embedding, coins)

\* the entry's adds are made whatever model its MeaningNode carries
rebuildLoadedAnyModel(f, ix, st, dimValueHash, dimValue, meaningNode, coins) ==
    IF meaningNode = NoObject THEN ix
    ELSE rebuildAdds(ix, getAllEntries(st, dimValueHash, "CubeObject"), 1,
                     dimValue.meaningNodeHash, meaningNode.embedding, coins)

\* rebuildIndex: one entry, after its two getObject reads
rebuildLoaded(f, ix, st, dimValueHash, dimValue, meaningNode, coins) ==
    IF meaningNode = NoObject THEN ix
    ELSE IF meaningNode.model # f.model THEN ix
    ELSE rebuildAdds(ix, getAllEntries(st, dimValueHash, "CubeObject"), 1,
                     dimValue.meaningNodeHash, meaningNode.embedding, coins)

rebuildEntry(f, ix, st, dimValueHash, coins) ==
    IF getObject(st, dimValueHash) = NoObject THEN ix
    ELSE rebuildLoaded(f, ix, st, dimValueHash, getObject(st, dimValueHash),
                       getObject(st, getObject(st, dimValueHash).meaningNodeHash), coins)

\* rebuildIndex run alone from the indexes ixs over the entries todo: every
\* index it can end with, for every draw of levels and every entry whose
\* read may fail
RECURSIVE rebuildIndex(_, _, _, _)
rebuildIndex(f, ixs, st, todo) ==
    IF todo = <<>> THEN ixs
    ELSE rebuildIndex(f,
             ixs \cup {rebuildEntry(f, ix, st, Head(todo), coins) :
                           ix \in ixs, coins \in [1..NumObjects -> Coins]},
             st, Tail(todo))

(***************************************************************************)
(* The facade over a store: the state after construction and one action    *)
(* per await of every operation.                                           *)
(***************************************************************************)
FacadeStart(provider) ==
    /\ fac = newMeaningDimension(FacConfig(DefaultMetric, provider))
    /\ index = newFacadeIndex(fac)
    /\ store = [objects |-> <<>>]
    /\ calls = <<>>
    /\ last = NoCall
    /\ now = 0
    /\ saved = Unused
    /\ ghost = NoGhost

\* a facade constructed without an embeddingProvider
FacadeInit == FacadeStart(FALSE)

Begun == [ghost EXCEPT !.steps = @ + 1]

MayStep == ghost.steps < MaxSteps

MayBegin == MayStep /\ Len(calls) < MaxCalls

\* the call calls[i] returns or throws
Finish(i, err, storeFailed, result) ==
    /\ last' = Outcome(calls[i], err, storeFailed, result)
    /\ calls' = RemoveAt(calls, i)

\* the call calls[i] throws what a rejected store write left it with
Failed(i, r) ==
    /\ index' = r.index
    /\ last' = Outcome([calls[i] EXCEPT !.touched = @ \/ r.index # index], r.err, TRUE, NoHash)
    /\ calls' = RemoveAt(calls, i)

\* init without "if (this.initialized) return"
CallInitAlways ==
    /\ MayBegin
    /\ ghost' = Begun
    /\ calls' = Append(calls, NewCall(fac, "init", "storeDimension", Null, <<>>, NoText))
    /\ UNCHANGED <<index, last, fac, store, now, saved>>

\* init, to its first await (the write of the Dimension object)
CallInit ==
    /\ MayBegin
    /\ ghost' = Begun
    /\ IF fac.initialized
       THEN /\ last' = Outcome(NewCall(fac, "init", "start", Null, <<>>, NoText),
                               "none", FALSE, NoHash)
            /\ calls' = calls
       ELSE /\ calls' = Append(calls, NewCall(fac, "init", "storeDimension", Null, <<>>, NoText))
            /\ last' = last
    /\ UNCHANGED <<index, fac, store, now, saved>>

\* init: storeUnversionedObject(dimension) settles
InitStoreDimension ==
    \E i \in DOMAIN calls, ok \in BOOLEAN :
        /\ calls[i].op = "init" /\ calls[i].pc = "storeDimension"
        /\ IF ok
           THEN /\ store' = storeUnversionedObject(store, DimensionObject)
                /\ fac' = [fac EXCEPT !.dimensionHash = SHA256(DimensionObject)]
                /\ calls' = [calls EXCEPT ![i].pc = "getAllEntries"]
                /\ last' = last
           ELSE /\ Finish(i, "StoreError", TRUE, NoHash)
                /\ UNCHANGED <<store, fac>>
        /\ UNCHANGED <<index, now, saved, ghost>>

\* rebuildIndex: getAllEntries(dimensionHash, 'MeaningDimensionValue') settles;
\* a failure is caught ("No entries yet") and init completes
InitGetAllEntries ==
    \E i \in DOMAIN calls, ok \in BOOLEAN :
        /\ calls[i].op = "init" /\ calls[i].pc = "getAllEntries"
        /\ LET dimValues == IF ok THEN getAllEntries(store, fac.dimensionHash,
                                                     "MeaningDimensionValue")
                            ELSE <<>>
           IN  IF dimValues = <<>>
               THEN /\ fac' = [fac EXCEPT !.initialized = TRUE]
                    /\ Finish(i, "none", FALSE, NoHash)
               ELSE /\ calls' = [calls EXCEPT ![i].pc = "rebuild", ![i].todo = dimValues]
                    /\ UNCHANGED <<fac, last>>
        /\ ghost' = IF ok THEN ghost
                    ELSE [ghost EXCEPT !.unread = @ \cup Range(getAllEntries(
                             store, fac.dimensionHash, "MeaningDimensionValue"))]
        /\ UNCHANGED <<index, store, now, saved>>

\* rebuildIndex: one dimension value; a read that fails skips the entry
InitRebuildEntry ==
    \E i \in DOMAIN calls, ok \in BOOLEAN, coins \in [1..NumObjects -> Coins] :
        /\ calls[i].op = "init" /\ calls[i].pc = "rebuild"
        /\ index' = IF ok THEN rebuildEntry(fac, index, store, Head(calls[i].todo), coins)
                    ELSE index
        /\ ghost' = IF ok THEN ghost
                    ELSE [ghost EXCEPT !.unread = @ \cup {Head(calls[i].todo)}]
        /\ IF Len(calls[i].todo) = 1
           THEN /\ fac' = [fac EXCEPT !.initialized = TRUE]
                /\ last' = Outcome([calls[i] EXCEPT !.touched = @ \/ index' # index],
                                   "none", FALSE, NoHash)
                /\ calls' = RemoveAt(calls, i)
           ELSE /\ calls' = [calls EXCEPT ![i].todo = Tail(@),
                                          ![i].touched = @ \/ index' # index]
                /\ UNCHANGED <<fac, last>>
        /\ UNCHANGED <<store, now, saved>>

\* indexEmbedding / getValueHash, to the first await
CallIndexEmbedding ==
    \E op \in {"indexEmbedding", "getValueHash"}, objectHash \in FacIds,
       embedding \in FacVecs \cup InvalidVecs :
        /\ MayBegin
        /\ op = "getValueHash" => objectHash = 1
        /\ ghost' = Begun
        /\ LET c == NewCall(fac, op, "start",
                            IF op = "getValueHash" THEN Null ELSE objectHash,
                            embedding, NoText)
               r == indexEmbeddingBegin(fac, c)
           IN  IF r.err # "none"
               THEN last' = Outcome(c, r.err, FALSE, NoHash) /\ calls' = calls
               ELSE calls' = Append(calls, r.call) /\ last' = last
        /\ UNCHANGED <<index, fac, store, now, saved>>

\* indexText / queryByText without "if (!this.embeddingProvider) throw"
CallByTextUnchecked ==
    \E op \in {"indexText", "queryByText"}, objectHash \in FacIds :
        /\ MayBegin
        /\ op = "queryByText" => objectHash = 1
        /\ ghost' = Begun
        /\ calls' = Append(calls, NewCall(fac, op, "embed",
                                          IF op = "queryByText" THEN Null ELSE objectHash,
                                          <<>>, "text"))
        /\ UNCHANGED <<index, last, fac, store, now, saved>>

\* indexText / queryByText, to the first await (the provider)
CallByText ==
    \E op \in {"indexText", "queryByText"}, objectHash \in FacIds :
        /\ MayBegin
        /\ op = "queryByText" => objectHash = 1
        /\ ghost' = Begun
        /\ LET c == NewCall(fac, op, "embed",
                            IF op = "queryByText" THEN Null ELSE objectHash, <<>>, "text")
           IN  IF ~fac.embeddingProvider
               THEN last' = Outcome(c, "NoEmbeddingProvider", FALSE, NoHash) /\ calls' = calls
               ELSE calls' = Append(calls, c) /\ last' = last
        /\ UNCHANGED <<index, fac, store, now, saved>>

\* embeddingProvider.embed(text) settles; indexText goes on into
\* indexEmbedding, queryByText into queryWithScores
ProviderSettles ==
    \E i \in DOMAIN calls, ok \in BOOLEAN, embedding \in FacVecs :
        /\ calls[i].pc = "embed"
        /\ IF ~ok THEN Finish(i, "ProviderError", FALSE, NoHash)
           ELSE IF calls[i].op = "queryByText"
           THEN Finish(i, queryWithScores(fac, index,
                                          [embedding |-> embedding, k |-> 1,
                                           threshold |-> NoThreshold]).err, FALSE, NoHash)
           ELSE LET r == indexEmbeddingBegin(fac, [calls[i] EXCEPT !.embedding = embedding])
                IN  IF r.err # "none" THEN Finish(i, r.err, FALSE, NoHash)
                    ELSE calls' = [calls EXCEPT ![i] = r.call] /\ last' = last
        /\ UNCHANGED <<index, fac, store, now, saved, ghost>>

\* the call goes on to the MeaningDimensionValue without its MeaningNode
\* having been written
StoreNodeSkipped ==
    \E i \in DOMAIN calls :
        /\ calls[i].pc = "storeNode"
        /\ calls' = [calls EXCEPT
                        ![i].pc = "storeValue",
                        ![i].meaningNodeHash = SHA256(meaningNodeOf(fac, calls[i])),
                        ![i].dimValue = MeaningDimensionValue(
                            fac.dimensionHash, SHA256(meaningNodeOf(fac, calls[i])), now)]
        /\ UNCHANGED <<index, last, fac, store, now, saved, ghost>>

\* storeUnversionedObject(meaningNode) settles; the continuation builds the
\* MeaningDimensionValue with created = Date.now()
StoreNodeSettles ==
    \E i \in DOMAIN calls, ok \in BOOLEAN :
        /\ calls[i].pc = "storeNode"
        /\ IF ok
           THEN LET meaningNode == meaningNodeOf(fac, calls[i])
                    meaningNodeHash == SHA256(meaningNode)
                IN  /\ store' = storeUnversionedObject(store, meaningNode)
                    /\ calls' = [calls EXCEPT
                                    ![i].pc = "storeValue",
                                    ![i].meaningNodeHash = meaningNodeHash,
                                    ![i].dimValue = MeaningDimensionValue(
                                        fac.dimensionHash, meaningNodeHash, now)]
                    /\ UNCHANGED <<index, last>>
           ELSE /\ Failed(i, storeFailure(index, calls[i]))
                /\ store' = store
        /\ UNCHANGED <<fac, now, saved, ghost>>

\* storeUnversionedObject(dimValue) settles; getValueHash returns its hash
StoreValueSettles ==
    \E i \in DOMAIN calls, ok \in BOOLEAN :
        /\ calls[i].pc = "storeValue"
        /\ IF ok
           THEN /\ store' = storeUnversionedObject(store, calls[i].dimValue)
                /\ index' = index
                /\ IF calls[i].op = "getValueHash"
                   THEN Finish(i, "none", FALSE, SHA256(calls[i].dimValue))
                   ELSE calls' = [calls EXCEPT ![i].pc = "add"] /\ last' = last
           ELSE /\ Failed(i, storeFailure(index, calls[i]))
                /\ store' = store
        /\ UNCHANGED <<fac, now, saved, ghost>>

\* indexEmbedding: this.index.add(objectHash, meaningNodeHash, embedding); return
Added(i, r) ==
    /\ index' = r.index
    /\ last' = Outcome([calls[i] EXCEPT !.touched = @ \/ r.index # index], r.err, FALSE,
                       IF r.err = "none" THEN SHA256(calls[i].dimValue) ELSE NoHash)
    /\ calls' = RemoveAt(calls, i)
    /\ ghost' = IF r.err = "none"
                THEN [ghost EXCEPT !.returned = @ \cup {calls[i].id}]
                ELSE ghost

\* index.add giving way to other calls after "this.nodes.set(id, node)"
IndexAddYields ==
    \E i \in DOMAIN calls, coins \in Coins :
        /\ calls[i].pc = "add"
        /\ Added(i, [index |-> setNode(index, newNode(calls[i].id, calls[i].meaningNodeHash,
                                                     calls[i].embedding,
                                                     randomLevel(index.config.M, coins))),
                     err |-> "none"])
        /\ UNCHANGED <<fac, store, now, saved>>

IndexAdd ==
    \E i \in DOMAIN calls, coins \in Coins :
        /\ calls[i].pc = "add"
        /\ Added(i, indexAdd(index, calls[i], randomLevel(index.config.M, coins)))
        /\ UNCHANGED <<fac, store, now, saved>>

\* a snapshot of the index is taken: serialize()
Serialize ==
    /\ saved' = [state |-> "saved", json |-> serialize(index)]
    /\ saved' # saved
    /\ MayStep
    /\ ghost' = Begun
    /\ UNCHANGED <<index, last, fac, store, calls, now>>

\* a snapshot that a facade of the same configuration took over another
\* store: one object, whose MeaningNode this store has never been given
ForeignSnapshot ==
    serialize(add(newHNSWIndex(Dimensions, DefaultMetric, SmallConfig), 1,
                  SHA256(MeaningNode(<<3, 4>>, "custom", Dimensions, "elsewhere")),
                  <<3, 4>>, 0).index)

\* the documents a caller hands to deserialize
Snapshots == {ForeignSnapshot} \cup (IF saved # Unused THEN {saved.json} ELSE {})

\* deserialize(json) with a snapshot taken earlier, here or elsewhere
Deserialize ==
    /\ \E json \in Snapshots : index' = deserialize(json)
    /\ MayStep
    /\ ghost' = [ghost EXCEPT !.deserialized = TRUE, !.steps = @ + 1]
    /\ UNCHANGED <<last, fac, store, calls, now, saved>>

\* the process ends and a new facade with the same config is constructed
\* over the same store; calls in flight are lost
Restart ==
    /\ ~ghost.restarted
    /\ MayStep
    /\ fac' = newMeaningDimension(configOf(fac))
    /\ index' = newFacadeIndex(fac')
    /\ calls' = <<>>
    /\ last' = NoCall
    /\ ghost' = [ghost EXCEPT !.steps = @ + 1, !.restarted = TRUE, !.returned = {}, !.deserialized = FALSE,
                              !.unread = {},
                              !.oldIds = Range(getAllObjectHashes(index)),
                              !.oldClean = ~ghost.deserialized]
    /\ UNCHANGED <<store, now, saved>>

\* the clock read by Date.now() advances
Tick ==
    /\ now < MaxTime
    /\ now' = now + 1
    /\ MayStep
    /\ ghost' = Begun
    /\ UNCHANGED <<index, last, fac, store, calls, saved>>

\* the cube orchestrator writes a CubeObject that carries a dimension value
EnvStoreCubeObject ==
    \E objectHash \in FacIds, i \in DOMAIN store.objects :
        /\ store.objects[i].type = "MeaningDimensionValue"
        /\ \A j \in DOMAIN store.objects :
               store.objects[j].type = "CubeObject" => store.objects[j].id # objectHash
        /\ store' = storeUnversionedObject(store, CubeObject(objectHash,
                                                             hashOf(store.objects[i])))
        /\ MayStep
        /\ ghost' = Begun
        /\ UNCHANGED <<index, last, fac, calls, now, saved>>

FacadeNext ==
    \/ CallInit \/ InitStoreDimension \/ InitGetAllEntries \/ InitRebuildEntry
    \/ CallIndexEmbedding \/ CallByText
    \/ StoreNodeSettles \/ StoreValueSettles \/ IndexAdd
    \/ Serialize \/ Deserialize \/ Restart \/ Tick \/ EnvStoreCubeObject

FacadeSpec == FacadeInit /\ [][FacadeNext]_vars

\* a facade constructed with an embeddingProvider, used through its text path
TextInit == FacadeStart(TRUE)

TextNext ==
    \/ CallInit \/ InitStoreDimension \/ InitGetAllEntries
    \/ CallByText \/ ProviderSettles
    \/ StoreNodeSettles \/ StoreValueSettles \/ IndexAdd

TextSpec == TextInit /\ [][TextNext]_vars

\* the configurations handed to the constructor: every model of the registry,
\* customDimensions absent, zero, negative or positive
MaxCustom == 2

ConstructorConfigs ==
    {[model |-> m, metric |-> metric, hnswConfig |-> SmallConfig,
      embeddingProvider |-> p] :
         m \in DOMAIN EMBEDDING_MODELS, metric \in Metrics, p \in BOOLEAN}
    \cup {[model |-> m, customDimensions |-> d, metric |-> metric,
           hnswConfig |-> SmallConfig, embeddingProvider |-> p] :
              m \in DOMAIN EMBEDDING_MODELS, d \in (-MaxCustom)..MaxCustom,
              metric \in Metrics, p \in BOOLEAN}

\* new MeaningDimension(config): a throw leaves the caller without a new facade
Construct ==
    \E config \in ConstructorConfigs :
        /\ last' = [NoCall EXCEPT !.op = "constructor", !.err = constructorError(config)]
        /\ fac' = IF constructorError(config) = "none" THEN newMeaningDimension(config)
                  ELSE fac
        /\ index' = IF constructorError(config) = "none" THEN newFacadeIndex(fac') ELSE index
        /\ calls' = <<>>
        /\ UNCHANGED <<store, now, saved, ghost>>

ConstructSpec == FacadeInit /\ [][Construct]_vars

\* the text path of a facade constructed with or without an embeddingProvider
ProviderInit == \E provider \in BOOLEAN : FacadeStart(provider)

ProviderSpec == ProviderInit /\ [][TextNext]_vars

(***************************************************************************)
(* init over a store that other writers have filled: facades of another    *)
(* model or another width, the cube orchestrator, a sync that has not yet  *)
(* delivered a MeaningNode.  Object i of FacIds carries one chain          *)
(* CubeObject -> MeaningDimensionValue -> MeaningNode.  Widths are scaled  *)
(* down: 2 stands for the width that the facade's model and the other      *)
(* model share, 1 for a different width.                                   *)
(***************************************************************************)
OtherModel == "all-MiniLM-L6-v2"

ChainKinds == {"good", "skew", "wide", "missing"}

\* the MeaningNode at the end of a chain
seedNode(kind, embedding) ==
    CASE kind = "skew" -> MeaningNode(embedding, OtherModel, Dimensions, NoText)
      [] kind = "wide" -> MeaningNode(BadVec, "custom", Len(BadVec), NoText)
      [] OTHER -> MeaningNode(embedding, "custom", Dimensions, NoText)

seedValue(kind, embedding) ==
    MeaningDimensionValue(SHA256(DimensionObject), SHA256(seedNode(kind, embedding)), 0)

\* the store after the chain of objectHash is written to it
seedChain(st, objectHash, kind, embedding) ==
    storeUnversionedObject(
        storeUnversionedObject(
            IF kind = "missing" THEN st
            ELSE storeUnversionedObject(st, seedNode(kind, embedding)),
            seedValue(kind, embedding)),
        CubeObject(objectHash, SHA256(seedValue(kind, embedding))))

RECURSIVE seedStore(_, _, _, _)
seedStore(st, kinds, embeddings, i) ==
    IF i > NumObjects THEN st
    ELSE seedStore(seedChain(st, i, kinds[i], embeddings[i]), kinds, embeddings, i + 1)

RebuildInit ==
    /\ fac = newMeaningDimension(FacConfig(DefaultMetric, FALSE))
    /\ index = newFacadeIndex(fac)
    /\ store \in {seedStore([objects |-> <<>>], kinds, embeddings, 1) :
                      kinds \in [FacIds -> ChainKinds], embeddings \in [FacIds -> FacVecs]}
    /\ calls = <<>>
    /\ last = NoCall
    /\ now = 0
    /\ saved = Unused
    /\ ghost = NoGhost

RebuildNext == CallInit \/ InitStoreDimension \/ InitGetAllEntries \/ InitRebuildEntry

RebuildSpec == RebuildInit /\ [][RebuildNext]_vars

(***************************************************************************)
(* Claims about the index                                                  *)
(***************************************************************************)
Searches == Vecs \X (1..MaxK) \X Thresholds

addOf(ix, objectHash, embedding, coins) ==
    add(ix, objectHash, meaningNodeHashOf(embedding), embedding,
        randomLevel(ix.config.M, coins))

\* C1: an add with a correctly sized embedding raises size() by exactly 1
\* when object_id was not present before the call, and by 0 when it was.
C1_SizeStep ==
    \A objectHash \in Ids, embedding \in Vecs, coins \in Coins :
        LET r == addOf(index, objectHash, embedding, coins)
        IN  /\ r.err = "none"
            /\ size(r.index) = size(index) + (IF has(index, objectHash) THEN 0 ELSE 1)

\* a non-empty index where an add of a fresh id and an add of a present id both happen
C1_Witness ==
    /\ size(index) >= 2
    /\ \E fresh \in Ids, present \in Ids, embedding \in Vecs, coins \in Coins :
        /\ ~has(index, fresh) /\ has(index, present)
        /\ size(addOf(index, fresh, embedding, coins).index) = size(index) + 1
        /\ size(addOf(index, present, embedding, coins).index) = size(index)

\* C2: add of an object_id that is already present leaves the whole index
\* unchanged, also when the call carries another embedding and meaning_node_id.
C2_AddIdempotent ==
    \A objectHash \in Ids, embedding \in Vecs, coins \in Coins :
        has(index, objectHash) =>
            addOf(index, objectHash, embedding, coins) = [index |-> index, err |-> "none"]

\* a present, connected node that is added again with another embedding
C2_Witness ==
    \E objectHash \in Ids, embedding \in Vecs, coins \in Coins :
        /\ has(index, objectHash)
        /\ getNode(index, objectHash).embedding # embedding
        /\ getNode(index, objectHash).meaningNodeHash # meaningNodeHashOf(embedding)
        /\ getNode(index, objectHash).connections[0] # <<>>
        /\ addOf(index, objectHash, embedding, coins).index = index

noRepeat(results) ==
    \A i, j \in DOMAIN results :
        results[i].objectHash = results[j].objectHash => i = j

\* C3: on a non-empty index a search with k >= 1 returns at most k entries,
\* no object twice, and with a threshold (0 included) only similarities >= it.
C3_SearchBounds ==
    size(index) > 0 =>
        \A sc \in Searches :
            LET r == search(index, sc[1], sc[2], sc[3])
            IN  /\ r.err = "none"
                /\ Len(r.results) <= sc[2]
                /\ noRepeat(r.results)
                /\ sc[3].set =>
                     \A i \in DOMAIN r.results :
                         RLeq(sc[3].value, r.results[i].similarity)

\* after a remove: a search cut to k entries, and one the threshold 0 filters
C3_Witness ==
    /\ size(index) >= 2
    /\ \E objectHash \in Ids : ~has(index, objectHash)
    /\ \E q \in Vecs :
        /\ Len(search(index, q, 1, NoThreshold).results) = 1
        /\ Len(search(index, q, MaxK, NoThreshold).results) >= 2
        /\ Len(search(index, q, MaxK, Threshold(RInt(0))).results) = 1

\* C4: the sequence search returns is ordered by non-increasing similarity,
\* under each of the three metrics.
C4_Descending ==
    \A sc \in Searches :
        LET results == search(index, sc[1], sc[2], sc[3]).results
        IN  \A i \in DOMAIN results :
                i < Len(results) =>
                    RLeq(results[i + 1].similarity, results[i].similarity)

\* a Euclidean search that returns two different similarities
C4_Witness ==
    /\ index.metric = "euclidean"
    /\ \E q \in Vecs :
        LET results == search(index, q, MaxK, NoThreshold).results
        IN  /\ Len(results) >= 2
            /\ RLess(results[2].similarity, results[1].similarity)

\* C9: deserialize(serialize(idx)) has the same dimensions, metric, config,
\* entry point, max level and nodes (levels and per-layer connections), and
\* answers every search as idx does.
C9_RoundTrip ==
    LET back == deserialize(serialize(index))
    IN  /\ back = index
        /\ \A sc \in Searches :
            search(back, sc[1], sc[2], sc[3]) = search(index, sc[1], sc[2], sc[3])

\* a two-layer graph with edges, one id removed, that round-trips
C9_Witness ==
    /\ size(index) >= 2
    /\ index.maxLevel >= 2
    /\ \E objectHash \in Ids : ~has(index, objectHash)
    /\ \E n \in Range(index.nodes) : Len(n.connections[0]) >= 1
    /\ deserialize(serialize(index)).nodes = index.nodes

linked(ix, i, l, j) ==
    /\ has(ix, i)
    /\ l \in DOMAIN getNode(ix, i).connections
    /\ j \in Range(getNode(ix, i).connections[l])

\* C10: at every layer L, j is in node i's connection set iff j is a present
\* node and i is in node j's connection set: no one-way edge, no edge to a
\* removed node.
C10_Symmetry ==
    \A i \in Ids, j \in Ids, l \in 0..index.maxLevel :
        linked(index, i, l, j) <=> (has(index, j) /\ linked(index, j, l, i))

\* a connected node whose removal leaves two nodes still linked to each other
C10_Witness ==
    \E i \in Ids, j \in Ids, x \in Ids :
        /\ linked(index, x, 0, i) /\ linked(index, x, 0, j) /\ linked(index, i, 0, j)
        /\ LET after == remove(index, x).index
           IN  /\ linked(after, i, 0, j) /\ linked(after, j, 0, i)
               /\ ~linked(after, i, 0, x) /\ ~linked(after, j, 0, x)

(***************************************************************************)
(* Claims about the facade                                                 *)
(***************************************************************************)
\* every query with k >= size and no threshold returns x
findable(f, ix, x) ==
    \A q \in FacVecs, k \in {Max(size(ix), 1), size(ix) + 1} :
        LET r == query(f, ix, [embedding |-> q, k |-> k, threshold |-> NoThreshold])
        IN  r.err = "none" /\ x \in Range(r.results)

\* C5 as stated: once indexEmbedding(x, v) has returned successfully on this
\* instance, isIndexed(x) is true and every later query with k >= size and no
\* threshold contains x.
C5_Original ==
    \A x \in ghost.returned :
        isIndexed(fac, index, x).result /\ findable(fac, index, x)

\* C5 (amended): once indexEmbedding(x, v) has returned successfully on an
\* instance on which deserialize has not been called, isIndexed(x) is true and
\* every later query with k >= size and no threshold contains x.
C5_ReadYourWrites ==
    ~ghost.deserialized =>
        \A x \in ghost.returned :
            isIndexed(fac, index, x).result /\ findable(fac, index, x)

C5_Witness ==
    /\ ~ghost.deserialized
    /\ ghost.returned = FacIds
    /\ size(index) = NumObjects
    /\ \A x \in FacIds : findable(fac, index, x)

cubeObjectsIn(st) == {i \in DOMAIN st.objects : st.objects[i].type = "CubeObject"}

\* C6: a new facade with the same config over the store the old facade wrote
\* by indexEmbedding has, after init, exactly the indexed object ids the old
\* facade had.
C6_RebuildAcrossRestart ==
    (/\ ghost.restarted /\ ghost.oldClean
     /\ fac.initialized /\ ghost.returned = {} /\ ~ghost.deserialized
     /\ cubeObjectsIn(store) = {})
    => Range(getAllObjectHashes(index)) = ghost.oldIds

GuardedCalls == {"indexEmbedding", "indexText", "queryByText", "getValueHash"}

\* C7: while the facade is not ready, indexEmbedding, indexText, query,
\* queryWithScores, queryByText, getValueHash, isIndexed and getIndexSize fail
\* with NotInitialized.
C7_NotInitialized ==
    /\ ~fac.initialized =>
           \A x \in FacIds, q \in FacVecs :
               /\ isIndexed(fac, index, x).err = "NotInitialized"
               /\ getIndexSize(fac, index).err = "NotInitialized"
               /\ query(fac, index, [embedding |-> q, k |-> 1,
                                     threshold |-> NoThreshold]).err = "NotInitialized"
               /\ queryWithScores(fac, index, [embedding |-> q, k |-> 1,
                                               threshold |-> NoThreshold]).err
                      = "NotInitialized"
    /\ (last.op \in GuardedCalls /\ ~last.ready) => last.err = "NotInitialized"

\* C8: when a store write of indexEmbedding (the MeaningNode or the
\* MeaningDimensionValue) fails, the caller gets the store's error and the
\* call has not changed the in-memory index.
C8_StoreFirst ==
    last.storeFailed => last.err = "StoreError" /\ ~last.touched

\* the second write failed: a MeaningNode is stored that no value references
C8_Witness ==
    /\ last.op = "indexEmbedding" /\ last.storeFailed /\ last.err = "StoreError"
    /\ size(index) >= 1 /\ ~has(index, last.id)
    /\ \E i \in DOMAIN store.objects :
           /\ store.objects[i].type = "MeaningNode"
           /\ \A j \in DOMAIN store.objects :
                  store.objects[j].type = "MeaningDimensionValue"
                      => store.objects[j].meaningNodeHash # SHA256(store.objects[i])

(***************************************************************************)
(* Claims about remove and about add after remove                          *)
(***************************************************************************)
\* x is in no connection set of ix, at any layer
unreferenced(ix, x) ==
    \A i \in DOMAIN ix.nodes :
        \A l \in DOMAIN ix.nodes[i].connections :
            x \notin Range(ix.nodes[i].connections[l])

\* C11: remove(x) returns true exactly when x was present; after true, has(x)
\* is false, size is one less and no remaining node lists x at any layer; after
\* false the index is unchanged.
C11_Remove ==
    \A x \in Ids :
        LET r == remove(index, x)
        IN  /\ r.result = has(index, x)
            /\ r.result => /\ ~has(r.index, x)
                           /\ size(r.index) = size(index) - 1
                           /\ unreferenced(r.index, x)
            /\ ~r.result => r.index = index

\* a present node with a neighbour is removed, and an absent id is asked for
C11_Witness ==
    /\ size(index) >= 2
    /\ \E x \in Ids, y \in Ids :
           /\ has(index, x) /\ ~has(index, y)
           /\ ~unreferenced(index, x)
           /\ remove(index, x).result /\ ~remove(index, y).result

\* the index after remove(x) ; add(x, e) on an index to which add(x, e) has
\* added x, the second add drawing its level from coins
cycle(ix, x, coins) ==
    addOf(remove(ix, x).index, x, getNode(ix, x).embedding, coins).index

\* search(e, k) with no threshold on ix returns x
found(ix, x, e, k) ==
    LET results == search(ix, e, k, NoThreshold).results
    IN  \E i \in DOMAIN results : results[i].objectHash = x

\* has(x) is true and x is findable by search(e, k) for k >= size
hasAndFinds(ix, x, e) ==
    has(ix, x) /\ found(ix, x, e, size(ix)) /\ found(ix, x, e, size(ix) + 1)

\* C12: in every index state, for every object id x that add(x, e) has put
\* in the index, after remove(x) ; add(x, e) has(x) is true and search(e, k)
\* with k >= size and no threshold returns x.
C12_AddRemoveAdd ==
    \A x \in Ids, coins \in Coins :
        has(index, x) =>
            hasAndFinds(cycle(index, x, coins), x, getNode(index, x).embedding)

\* the cycle is run on a full index whose two other nodes the removal of x
\* leaves without a link between them
C12_Witness ==
    \E x \in Ids, coins \in Coins :
        /\ has(index, x) /\ size(index) = 3
        /\ \A i \in DOMAIN remove(index, x).index.nodes :
               remove(index, x).index.nodes[i].connections[0] = <<>>
        /\ size(cycle(index, x, coins)) = 3
        /\ hasAndFinds(cycle(index, x, coins), x, getNode(index, x).embedding)

\* C13: in every index state reached by add and remove, search(q, k) with
\* k >= size() and no threshold returns exactly size() results, one for each
\* indexed element.
C13_SearchAll ==
    \A q \in Vecs, k \in {size(index), size(index) + 1} :
        size(index) > 0 =>
            LET results == search(index, q, k, NoThreshold).results
            IN  /\ Len(results) = size(index)
                /\ \A x \in NodeIds(index) :
                       \E i \in DOMAIN results : results[i].objectHash = x

(***************************************************************************)
(* Claims about the facade's writes and its rebuild                        *)
(***************************************************************************)
\* the caller saw getValueHash return a MeaningDimensionValue id
returnedValueHash(o) == o.op = "getValueHash" /\ o.err = "none"

\* the vector of the MeaningNode that the value with id h references
vectorOf(h) == h.hash.meaningNodeHash.hash.embedding

\* C14: when getValueHash(v) returns on a ready facade on which the call that
\* returned before it was a getValueHash(v) with the same vector, the two
\* calls return the same MeaningDimensionValue id, whatever the time between.
C14_Deterministic ==
    [][(/\ returnedValueHash(last) /\ returnedValueHash(last')
        /\ Len(calls') < Len(calls)
        /\ vectorOf(last.result) = vectorOf(last'.result))
       => last'.result = last.result]_vars

\* the CubeObjects of the store
cubeObjects(st) == {o \in Range(st.objects) : o.type = "CubeObject"}

\* the MeaningNode at the end of the chain of CubeObject o, NoObject if absent
nodeOfCube(st, o) ==
    IF getObject(st, o.dimensionValue) = NoObject THEN NoObject
    ELSE getObject(st, getObject(st, o.dimensionValue).meaningNodeHash)

\* the chain of CubeObject o ends in a stored MeaningNode of another model
skewed(f, st, o) == nodeOfCube(st, o) # NoObject /\ nodeOfCube(st, o).model # f.model

\* C15: during and after init over a store that holds MeaningNodes of another
\* model, no object whose chain ends in such a MeaningNode is in the index,
\* every node of the index references a stored MeaningNode of the facade's
\* model, and init returns an error only when its Dimension write failed.
C15_ModelSkew ==
    /\ \A o \in cubeObjects(store) : skewed(fac, store, o) => ~has(index, o.id)
    /\ \A i \in DOMAIN index.nodes :
           /\ getObject(store, index.nodes[i].meaningNodeHash) # NoObject
           /\ getObject(store, index.nodes[i].meaningNodeHash).model = fac.model
    /\ (last.op = "init" /\ last.err # "none") => last.storeFailed

\* init has returned ready after reading every entry of a store with one
\* chain of the facade's model and one of another model: size is 1
C15_Witness ==
    /\ fac.initialized /\ last.op = "init" /\ last.err = "none" /\ ghost.unread = {}
    /\ size(index) = 1
    /\ \E o \in cubeObjects(store) : skewed(fac, store, o)
    /\ \E o \in cubeObjects(store) : has(index, o.id) /\ ~skewed(fac, store, o)

\* the chain of CubeObject o ends in a stored MeaningNode that rebuild can add
intact(f, st, o) ==
    /\ nodeOfCube(st, o) # NoObject
    /\ nodeOfCube(st, o).model = f.model
    /\ Len(nodeOfCube(st, o).embedding) = f.dimensions

\* the chain of CubeObject o is broken: no MeaningNode, or one of another width
broken(f, st, o) ==
    \/ nodeOfCube(st, o) = NoObject
    \/ nodeOfCube(st, o).model = f.model /\ Len(nodeOfCube(st, o).embedding) # f.dimensions

\* C16: once init has made the facade ready, every object whose chain is
\* intact and whose entry was read without a failure is in the index, whatever
\* broken chains (missing MeaningNode, wrong width, failed read) the store
\* holds before or after it; and init returns an error only when its
\* Dimension write failed, never for an entry.
C16_BrokenChain ==
    /\ fac.initialized =>
           \A o \in cubeObjects(store) :
               (intact(fac, store, o) /\ o.dimensionValue \notin ghost.unread)
                   => has(index, o.id)
    /\ (last.op = "init" /\ last.storeFailed) = (last.op = "init" /\ last.err # "none")

\* init has returned ready over a store whose first chain is broken and whose
\* second chain is intact: the second object is indexed
C16_Witness ==
    /\ fac.initialized /\ last.op = "init" /\ last.err = "none"
    /\ \E o \in cubeObjects(store) : o.id = 1 /\ broken(fac, store, o)
    /\ \E o \in cubeObjects(store) : o.id = 2 /\ intact(fac, store, o) /\ has(index, o.id)

\* what an index holds, apart from the links and levels that randomLevel draws
contents(ix) ==
    {[objectHash |-> ix.nodes[i].objectHash, meaningNodeHash |-> ix.nodes[i].meaningNodeHash,
      embedding |-> ix.nodes[i].embedding] : i \in DOMAIN ix.nodes}

\* what the index can hold after one init over the store st
oneInit(f, st) ==
    {contents(ix) : ix \in rebuildIndex(f, {newFacadeIndex(f)}, st,
                      getAllEntries(st, SHA256(DimensionObject), "MeaningDimensionValue"))}

\* C17: an init call made on a ready facade returns at once without error and
\* without suspending at a store write, and leaves the facade, the index and
\* the store as they were; and however many init calls have run, one after
\* another or two at a time, a ready facade holds the dimension id and an
\* index with the contents that a single init can produce.
C17_InitIdempotent ==
    [][/\ (fac.initialized /\ ghost'.steps = ghost.steps + 1) =>
              /\ calls' = calls
              /\ fac' = fac /\ index' = index /\ store' = store
              /\ last'.op = "init" /\ last'.err = "none" /\ last'.ready
       /\ fac'.initialized =>
              /\ fac'.dimensionHash = SHA256(DimensionObject)
              /\ stored(store', DimensionObject)
              /\ contents(index') \in oneInit(fac', store')]_vars

\* a second init has returned on the ready facade, whose index holds an object
C17_Witness ==
    /\ fac.initialized /\ ghost.steps >= 2
    /\ last.op = "init" /\ last.ready /\ last.err = "none"
    /\ size(index) >= 1

\* the place of obj in the write order of the store, 0 if it is not stored
writtenAt(st, obj) ==
    IF stored(st, obj) THEN CHOOSE i \in DOMAIN st.objects : st.objects[i] = obj ELSE 0

\* the MeaningDimensionValues of the store
dimensionValues(st) == {o \in Range(st.objects) : o.type = "MeaningDimensionValue"}

\* C18: in every store state the facade reaches, every MeaningDimensionValue
\* references a MeaningNode that was written to the store before it; a call of
\* indexEmbedding or getValueHash that waits for its MeaningDimensionValue
\* write has its MeaningNode stored, and a call of indexEmbedding that is
\* about to run index.add has both stored.
C18_NodeBeforeValue ==
    /\ \A v \in dimensionValues(store) :
           /\ stored(store, v.meaningNodeHash.hash)
           /\ v.meaningNodeHash.hash.type = "MeaningNode"
           /\ writtenAt(store, v.meaningNodeHash.hash) < writtenAt(store, v)
    /\ \A i \in DOMAIN calls :
           /\ calls[i].pc \in {"storeValue", "add"} =>
                  stored(store, calls[i].meaningNodeHash.hash)
           /\ calls[i].pc = "add" => stored(store, calls[i].dimValue)

\* one call waits for index.add with both records stored while another waits
\* for its MeaningDimensionValue write
C18_Witness ==
    /\ \E i \in DOMAIN calls : calls[i].pc = "add" /\ stored(store, calls[i].dimValue)
    /\ \E i \in DOMAIN calls :
           /\ calls[i].pc = "storeValue" /\ ~stored(store, calls[i].dimValue)
           /\ stored(store, calls[i].meaningNodeHash.hash)

\* the node n of the index is backed by the store st: its MeaningNode is
\* stored with the same embedding and a MeaningDimensionValue references it
backed(st, n) ==
    /\ getObject(st, n.meaningNodeHash) # NoObject
    /\ getObject(st, n.meaningNodeHash).type = "MeaningNode"
    /\ getObject(st, n.meaningNodeHash).embedding = n.embedding
    /\ \E v \in dimensionValues(st) : v.meaningNodeHash = n.meaningNodeHash

\* C19: after any sequence of facade operations, deserialize among them,
\* every node of the in-memory index is backed by the store.
C19_IndexBacked == \A i \in DOMAIN index.nodes : backed(store, index.nodes[i])

\* C20: every document that HNSWIndex.deserialize accepts yields an index that
\* keeps the data model: a document whose entry point is absent or names an
\* absent node, whose entry level differs from max_level, with a node level
\* above max_level, asymmetric connections, connection keys other than
\* 0..level or an embedding of another width fails and produces no index.
C20_CorruptRejected ==
    (last.op = "deserialize" /\ last.err = "none") => dataModel(index)

(***************************************************************************)
(* Claims about the widths the index accepts                               *)
(***************************************************************************)
\* C21: in every index state, the empty index included, search with a query
\* whose width differs from the index dimensions fails with a dimension
\* mismatch and returns no results.
C21_SearchRejectsWidth ==
    \A k \in 1..MaxK, threshold \in Thresholds :
        /\ search(index, BadVec, k, threshold).err = "DimensionMismatch"
        /\ search(index, BadVec, k, threshold).results = <<>>

\* C22: in every index state reached by add and remove, add with an embedding
\* whose width differs from the index dimensions fails with a dimension
\* mismatch and returns the index unchanged, whether or not the id is indexed,
\* and every stored embedding has the width of the index.
C22_AddRejectsWidth ==
    /\ \A x \in Ids, coins \in Coins :
           addOf(index, x, BadVec, coins) = [index |-> index, err |-> "DimensionMismatch"]
    /\ widthsMatch(index)

\* an index of two nodes refuses the wrong width for an id it holds and for
\* one it does not hold
C22_Witness ==
    /\ size(index) = 2
    /\ \E x \in Ids, y \in Ids, coins \in Coins :
           /\ has(index, x) /\ ~has(index, y)
           /\ addOf(index, x, BadVec, coins).err = "DimensionMismatch"
           /\ addOf(index, y, BadVec, coins).err = "DimensionMismatch"
           /\ addOf(index, y, BadVec, coins).index = index

(***************************************************************************)
(* Claims about what the facade refuses                                    *)
(***************************************************************************)
\* the criteria of a query with the vector e
criteria(e) == {[embedding |-> e, k |-> k, threshold |-> t] : k \in 1..MaxK, t \in Thresholds}

\* C23: on a ready facade, indexEmbedding, getValueHash, query and
\* queryWithScores called with an empty vector, one with a non-finite element
\* or one of another width fail with InvalidEmbedding; the step in which such
\* a call fails writes nothing to the store, leaves the index as it was and
\* leaves no call suspended.
C23_InvalidEmbedding ==
    [][/\ fac.initialized =>
              \A e \in InvalidVecs :
                  /\ \A op \in {"indexEmbedding", "getValueHash"} :
                         indexEmbeddingBegin(fac, NewCall(fac, op, "start", 1, e, NoText)).err
                             = "InvalidEmbedding"
                  /\ \A c \in criteria(e) :
                         /\ query(fac, index, c) = [err |-> "InvalidEmbedding", results |-> <<>>]
                         /\ queryWithScores(fac, index, c)
                                = [err |-> "InvalidEmbedding", results |-> <<>>]
       /\ (last' # last /\ last'.err = "InvalidEmbedding") =>
              /\ last'.ready /\ ~last'.touched
              /\ store' = store /\ index' = index /\ calls' = calls]_vars

\* an indexEmbedding with an invalid vector has failed on a ready facade whose
\* index and store hold an earlier object
C23_Witness ==
    /\ last.op = "indexEmbedding" /\ last.err = "InvalidEmbedding" /\ last.ready
    /\ size(index) >= 1 /\ dimensionValues(store) # {}

TextCalls == {"indexText", "queryByText"}

\* C24: on a facade without an embedding provider no indexText or queryByText
\* is ever suspended: each fails at once with NoEmbeddingProvider; and the
\* step in which a text call fails, for want of a provider or because
\* provider.embed failed or was cancelled, writes nothing to the store and
\* leaves the index as it was, the call having touched neither.
C24_FailClosed ==
    [][/\ ~fac.embeddingProvider =>
              /\ \A i \in DOMAIN calls' : calls'[i].op \notin TextCalls
              /\ (last' # last /\ last'.op \in TextCalls) =>
                     last'.err = "NoEmbeddingProvider"
       /\ (last' # last /\ last'.err \in {"NoEmbeddingProvider", "ProviderError"}) =>
              /\ last'.op \in TextCalls
              /\ ~last'.touched /\ ~last'.storeFailed
              /\ store' = store /\ index' = index
              /\ last'.err = "NoEmbeddingProvider" => calls' = calls]_vars

\* provider.embed has failed for an indexText on a facade whose index and
\* store hold an object that an earlier indexText put there
C24_Witness ==
    /\ fac.embeddingProvider
    /\ last.op = "indexText" /\ last.err = "ProviderError"
    /\ size(index) >= 1 /\ dimensionValues(store) # {}

\* C25: every facade the constructor returns with model custom has
\* dimensions > 0, every other has the registry width of its model, and the
\* constructor fails with a configuration error for every custom
\* configuration whose customDimensions is absent, 0 or negative.
C25_Constructor ==
    /\ fac.model = "custom" => fac.dimensions > 0
    /\ fac.model # "custom" => fac.dimensions = EMBEDDING_MODELS[fac.model]
    /\ \A config \in ConstructorConfigs :
           (config.model = "custom"
            /\ ("customDimensions" \notin DOMAIN config \/ config.customDimensions <= 0))
               => constructorError(config) = "ConfigError"

\* the place of a held object in the insertion order of the nodes Map
insertedAt(ix, objectHash) ==
    CHOOSE i \in DOMAIN ix.nodes : ix.nodes[i].objectHash = objectHash

\* C26: when two returned elements have equal similarity to the query, search
\* returns them in insertion order: the element added earlier comes first.
C26_TiesByInsertion ==
    \A q \in Vecs :
        LET results == search(index, q, MaxK, NoThreshold).results
        IN  \A i, j \in DOMAIN results :
                (i < j /\ results[i].similarity = results[j].similarity)
                    => insertedAt(index, results[i].objectHash)
                           < insertedAt(index, results[j].objectHash)

(***************************************************************************)
(* The index built by add only                                             *)
(***************************************************************************)
AddSpec == Init /\ [][Add]_vars

\* the distance from q to a held object, under the metric of the index
distanceTo(ix, q, objectHash) ==
    distance(ix.metric, q, getNode(ix, objectHash).embedding)

\* a brute-force scan agrees: no object left out is closer than one returned
nearest(ix, q, results) ==
    \A i \in DOMAIN results, n \in DOMAIN ix.nodes :
        (\A j \in DOMAIN results : results[j].objectHash # ix.nodes[n].objectHash)
            => RLeq(distanceTo(ix, q, results[i].objectHash),
                    distanceTo(ix, q, ix.nodes[n].objectHash))

\* C27: on an index built by add only, when max(k, ef_search) >= size(),
\* search(q, k) without threshold returns min(k, size) different elements and
\* none of the elements left out is closer to q than a returned one.
C27_Exact ==
    \A q \in Vecs, k \in 1..MaxK :
        Max(k, index.config.efSearch) >= size(index) =>
            LET results == search(index, q, k, NoThreshold).results
            IN  /\ Len(results) = Min(k, size(index))
                /\ noRepeat(results)
                /\ nearest(index, q, results)

\* three elements, a search for one of them that has to leave the entry
\* point, which is strictly farther than the element returned, out
C27_Witness ==
    /\ size(index) = 3
    /\ \E q \in Vecs :
        LET results == search(index, q, 1, NoThreshold).results
        IN  /\ Len(results) = 1
            /\ results[1].objectHash # index.entryPoint
            /\ RLess(distanceTo(index, q, results[1].objectHash),
                     distanceTo(index, q, index.entryPoint))

(***************************************************************************)
(* A fresh facade over a store that holds chains: deserialize(json) before *)
(* anything else, then init                                                *)
(***************************************************************************)
SnapshotNext ==
    \/ CallInit \/ InitStoreDimension \/ InitGetAllEntries \/ InitRebuildEntry
    \/ ghost.steps = 0 /\ Deserialize

SnapshotSpec == RebuildInit /\ [][SnapshotNext]_vars

\* the object ids an index holds
held(ix) == Range(getAllObjectHashes(ix))

\* C28: when deserialize(snapshot) is called on a fresh facade and init is
\* called afterwards, init does not rebuild from the store: after init the
\* index holds exactly the nodes of the snapshot, whatever the store holds.
C28_InitKeepsSnapshot ==
    (ghost.deserialized /\ fac.initialized)
        => held(index) = held(deserialize(ForeignSnapshot))

(***************************************************************************)
(* An index with M = 2, efConstruction above M and more ids than M + 1, so *)
(* that add finds more than M candidates and more than M later elements    *)
(* can link themselves to one node                                         *)
(***************************************************************************)
CrowdConfig == [M |-> 2, efConstruction |-> 3, efSearch |-> 1]

CrowdIds == 1..(CrowdConfig.M + 2)

CrowdInit ==
    /\ index = newHNSWIndex(Dimensions, "euclidean", CrowdConfig)
    /\ last = NoCall
    /\ fac = Unused
    /\ store = Unused
    /\ calls = <<>>
    /\ now = 0
    /\ saved = Unused
    /\ ghost = Unused

\* the vectors of non-zero length
CrowdVecs == Vecs \ {<<0, 0>>}

CrowdAdd ==
    \E objectHash \in CrowdIds, embedding \in CrowdVecs, coins \in Coins :
        /\ index' = add(index, objectHash, meaningNodeHashOf(embedding), embedding,
                        randomLevel(index.config.M, coins)).index
        /\ UNCHANGED <<last, fac, store, calls, now, saved, ghost>>

CrowdRemove ==
    \E objectHash \in CrowdIds :
        /\ index' = remove(index, objectHash).index
        /\ UNCHANGED <<last, fac, store, calls, now, saved, ghost>>

CrowdSpec == CrowdInit /\ [][CrowdAdd \/ CrowdRemove]_vars

\* the node has at most M neighbours at each of its layers
atMostM(ix, node) ==
    \A l \in DOMAIN node.connections : Len(node.connections[l]) <= ix.config.M

FloatBits == 5

RMul(a, b) == Rat(a.n * b.n, a.d * b.d)
RDiv(a, b) == Rat(a.n * b.d, a.d * b.n)

\* the integer nearest to n / d, n >= 0 and d > 0, ties to even
nearestEven(n, d) ==
    IF 2 * (n % d) < d THEN n \div d
    ELSE IF 2 * (n % d) > d THEN (n \div d) + 1
    ELSE IF (n \div d) % 2 = 0 THEN n \div d
    ELSE (n \div d) + 1

\* n / d > 0 scaled into [2^(FloatBits-1), 2^FloatBits), rounded to an
\* integer and scaled back by up / down
RECURSIVE roundedFrom(_, _, _, _)
roundedFrom(n, d, up, down) ==
    IF n >= d * 2^FloatBits THEN roundedFrom(n, 2 * d, 2 * up, down)
    ELSE IF n < d * 2^(FloatBits - 1) THEN roundedFrom(2 * n, d, up, 2 * down)
    ELSE Rat(nearestEven(n, d) * up, down)

\* the float nearest to the rational x
rounded(x) ==
    IF x.n = 0 THEN x
    ELSE IF x.n < 0 THEN RNeg(roundedFrom(-x.n, x.d, 1, 1))
    ELSE roundedFrom(x.n, x.d, 1, 1)

\* "sum += a[i] * b[i]" from index i on
RECURSIVE dotFloatFrom(_, _, _, _)
dotFloatFrom(a, b, i, sum) ==
    IF i > Len(a) THEN sum
    ELSE dotFloatFrom(a, b, i + 1,
                      rounded(RAdd(sum, rounded(RMul(RInt(a[i]), RInt(b[i]))))))

dotProductFloat(a, b) == dotFloatFrom(a, b, 1, RInt(0))

\* Math.sqrt of a float that holds a perfect square
sqrtFloat(x) == rounded(RInt(Sqrt(x.n \div x.d)))

\* "const magnitude = Math.sqrt(normA) * Math.sqrt(normB)"
magnitudeFloat(a, b) ==
    rounded(RMul(sqrtFloat(dotProductFloat(a, a)), sqrtFloat(dotProductFloat(b, b))))

\* "if (magnitude === 0) return 0; return dotProduct / magnitude"
cosineFloatOf(dp, magnitude) ==
    IF magnitude.n = 0 THEN RInt(0) ELSE rounded(RDiv(dp, magnitude))

cosineSimilarityFloat(a, b) == cosineFloatOf(dotProductFloat(a, b), magnitudeFloat(a, b))

\* "const diff = a[i] - b[i]; sum += diff * diff" from index i on
RECURSIVE squaresFloatFrom(_, _, _, _)
squaresFloatFrom(a, b, i, sum) ==
    IF i > Len(a) THEN sum
    ELSE squaresFloatFrom(a, b, i + 1,
             rounded(RAdd(sum, rounded(RMul(rounded(RInt(a[i] - b[i])),
                                            rounded(RInt(a[i] - b[i])))))))

euclideanDistanceFloat(a, b) == sqrtFloat(squaresFloatFrom(a, b, 1, RInt(0)))

\* HNSWIndex.distance
distanceFloat(metric, a, b) ==
    CASE metric = "cosine" -> rounded(RSub(RInt(1), cosineSimilarityFloat(a, b)))
      [] metric = "euclidean" -> euclideanDistanceFloat(a, b)
      [] metric = "dot_product" -> RNeg(dotProductFloat(a, b))

\* HNSWIndex.toSimilarity
toSimilarityFloat(metric, dist) ==
    CASE metric = "cosine" -> rounded(RSub(RInt(1), dist))
      [] metric = "euclidean" -> rounded(RDiv(RInt(1), rounded(RAdd(RInt(1), dist))))
      [] metric = "dot_product" -> RNeg(dist)
      [] OTHER -> rounded(RSub(RInt(1), dist))

\* every coordinate, norm and pairwise Euclidean distance is an integer
AdapterVecs == Vecs \cup {<<-3, 4>>, <<-3, -4>>}

\* what search computes for one stored embedding: "dist: this.distance(query,
\* embedding)" in searchLayer, "similarity: this.toSimilarity(c.dist)" in search
measuredAt(metric, embedding, dist) ==
    [embedding |-> embedding, dist |-> dist, similarity |-> toSimilarityFloat(metric, dist)]

measured(metric, q, embedding) ==
    measuredAt(metric, embedding, distanceFloat(metric, q, embedding))

\* a query u measured against two stored vectors v and w
Measure ==
    \E u \in AdapterVecs, v \in AdapterVecs, w \in AdapterVecs :
        /\ last' = [NoCall EXCEPT !.op = "distance",
                                  !.result = [query |-> u,
                                              v |-> measured(index.metric, u, v),
                                              w |-> measured(index.metric, u, w)]]
        /\ UNCHANGED <<index, fac, store, calls, now, saved, ghost>>

AdapterSpec == Init /\ [][Measure]_vars

\* C30: under each metric distance(u,v) < distance(u,w) if and only if the
\* reported similarity of v is greater than that of w; under cosine and
\* dot_product the reported similarity equals the cosine similarity / dot
\* product itself; under euclidean distance 0, 1, 3 map to 1, 1/2, 1/4.
C30_Adapters ==
    last.op = "distance" =>
        /\ RLess(last.result.v.dist, last.result.w.dist)
               <=> RLess(last.result.w.similarity, last.result.v.similarity)
        /\ index.metric = "cosine" =>
               last.result.v.similarity
                   = cosineSimilarityFloat(last.result.query, last.result.v.embedding)
        /\ index.metric = "dot_product" =>
               last.result.v.similarity
                   = dotProductFloat(last.result.query, last.result.v.embedding)
        /\ index.metric = "euclidean" =>
               /\ toSimilarityFloat("euclidean", RInt(0)) = RInt(1)
               /\ toSimilarityFloat("euclidean", RInt(1)) = Rat(1, 2)
               /\ toSimilarityFloat("euclidean", RInt(3)) = Rat(1, 4)

neighboursReach(ix) ==
    \A i \in DOMAIN ix.nodes : \A l \in DOMAIN ix.nodes[i].connections :
        \A j \in Range(ix.nodes[i].connections[l]) :
            has(ix, j) /\ getNode(ix, j).level >= l

\* C33: in every index state reachable by add and remove, each node's
\* connection map has exactly the keys 0..level of that node, every neighbour
\* listed at layer L has level >= L, and no add finds a connection set missing.
C33_LayerKeys ==
    /\ keysToLevel(index)
    /\ neighboursReach(index)
    /\ \A objectHash \in Ids, embedding \in Vecs, coins \in Coins :
           addOf(index, objectHash, embedding, coins).err = "none"

\* two nodes linked at layer 2 beside a node of level 1, and a fresh element
\* of level 2 that add links at layers 0, 1 and 2
C33_Witness ==
    /\ size(index) = 2
    /\ \E i \in DOMAIN index.nodes : index.nodes[i].level = 1
    /\ index.maxLevel = 2
    /\ \E objectHash \in Ids, embedding \in Vecs, coins \in Coins :
           /\ ~has(index, objectHash)
           /\ randomLevel(index.config.M, coins) = 2
           /\ getNode(addOf(index, objectHash, embedding, coins).index,
                      objectHash).connections[2] # <<>>
           /\ getNode(addOf(index, objectHash, embedding, coins).index,
                      objectHash).connections[0] # <<>>

(***************************************************************************)
(* HNSWIndex.searchLayer once more, returning the set "visited" it ends    *)
(* with in place of "results"                                              *)
(***************************************************************************)
RECURSIVE visitedLoop(_, _, _, _, _)
visitedTurn(ix, q, ef, level, visited, cs, rs) ==
    IF RLess(rs[Len(rs)].dist, Head(cs).dist) THEN visited
    ELSE visitedLoop(ix, q, ef, level,
             exploreNeighbors(ix, q, ef,
                 connectionsAt(getNode(ix, Head(cs).id), level), 1,
                 [visited |-> visited, candidates |-> Tail(cs), results |-> rs]))

visitedLoop(ix, q, ef, level, st) ==
    IF st.candidates = <<>> THEN st.visited
    ELSE visitedTurn(ix, q, ef, level, st.visited,
                     sortByDist(st.candidates), sortByDist(st.results))

visitedStart(ix, q, ef, level, e) ==
    visitedLoop(ix, q, ef, level,
        [visited |-> {e.id}, candidates |-> <<e>>, results |-> <<e>>])

visitedBy(ix, q, entryId, ef, level) ==
    visitedStart(ix, q, ef, level,
        [id |-> entryId,
         dist |-> distance(ix.metric, q, getNode(ix, entryId).embedding)])

\* results: at most ef entries, ascending, and none of the visited nodes left
\* out is closer to q than an entry
closestVisited(ix, q, ef, results, visited) ==
    /\ Len(results) <= ef
    /\ \A i \in DOMAIN results : i < Len(results) => RLeq(results[i].dist, results[i + 1].dist)
    /\ \A i \in DOMAIN results, v \in visited :
           (\A j \in DOMAIN results : results[j].id # v)
               => RLeq(results[i].dist, distanceTo(ix, q, v))

\* the layer-0 pass of search(q, k) with ef = max(k, efSearch)
closestAtLayer0(ix, q, ef, start) ==
    closestVisited(ix, q, ef, searchLayer(ix, q, start, ef, 0), visitedBy(ix, q, start, ef, 0))

\* C34: search_layer admits an unvisited neighbour whenever |results| < ef or
\* its distance is below the maximum held in results, so it returns, sorted
\* by ascending distance, at most ef entries that are the ef closest among
\* all nodes it visited.
C34_Admission ==
    size(index) > 0 =>
        \A q \in CrowdVecs, k \in 1..(CrowdConfig.M + 1) :
            closestAtLayer0(index, q, Max(k, index.config.efSearch),
                            zoomIn(index, q, index.entryPoint, index.maxLevel, 0))

(***************************************************************************)
(* The crowded index built by add only                                     *)
(***************************************************************************)
CrowdAddSpec == CrowdInit /\ [][CrowdAdd]_vars

\* the node from which add searches layer l for an element of level lv: the
\* end of the zoom-in at the topmost layer it links, below that the closest
\* candidate of the layer above
RECURSIVE layerStart(_, _, _, _)
layerStart(ix, embedding, lv, l) ==
    IF l >= Min(lv, ix.maxLevel)
    THEN zoomIn(ix, embedding, ix.entryPoint, ix.maxLevel, lv)
    ELSE closestOr(searchLayer(ix, embedding, layerStart(ix, embedding, lv, l + 1),
                               ix.config.efConstruction, l + 1),
                   layerStart(ix, embedding, lv, l + 1))

\* links are the first min(M, |candidates|) candidates, which are the closest
firstOf(links, candidates, M) ==
    /\ Len(links) = Min(M, Len(candidates))
    /\ Len(links) >= 1
    /\ \A i \in DOMAIN links : links[i] = candidates[i].id
    /\ \A i \in DOMAIN links, j \in DOMAIN candidates :
           j > Len(links) => RLeq(candidates[i].dist, candidates[j].dist)

\* the edges of the new node: at layers 0..min(level, old max_level) the first
\* candidates found in the old graph, none above
edgesOfNew(old, node) ==
    \A l \in DOMAIN node.connections :
        IF l > Min(node.level, old.maxLevel) THEN node.connections[l] = <<>>
        ELSE firstOf(node.connections[l],
                     searchLayer(old, node.embedding,
                                 layerStart(old, node.embedding, node.level, l),
                                 old.config.efConstruction, l),
                     old.config.M)

\* no edge between two nodes of the old graph is added or removed
edgesOfOldKept(old, new, id) ==
    \A i \in DOMAIN old.nodes : \A l \in DOMAIN old.nodes[i].connections :
        Range(getNode(new, old.nodes[i].id).connections[l]) \ {id}
            = Range(old.nodes[i].connections[l])

\* C35: an add of a fresh node of level lv into a non-empty graph creates
\* edges only at layers 0..min(lv, old max_level); at each such layer the new
\* node is linked to exactly the first min(M, |candidates|) candidates by
\* ascending distance, at least one; the layers above get no edge; and no
\* edge between two pre-existing nodes is added or removed.
C35_NewEdges ==
    [][size(index) > 0 =>
          \A id \in held(index') \ held(index) :
              /\ edgesOfNew(index, getNode(index', id))
              /\ edgesOfOldKept(index, index', id)]_vars

\* a new node that found M + 1 candidates at layer 0 and was linked to M of
\* them, with a layer of its own above the old max_level
C35_Witness ==
    /\ size(index) = CrowdConfig.M + 2
    /\ index.nodes[size(index)].level = index.maxLevel
    /\ index.entryPoint = index.nodes[size(index)].id
    /\ \E i \in DOMAIN index.nodes : index.nodes[i].level < index.maxLevel
    /\ Len(index.nodes[size(index)].connections[0]) = CrowdConfig.M
    /\ index.nodes[size(index)].connections[index.maxLevel] = <<>>

(***************************************************************************)
(* One instance with a provider under concurrent init, indexEmbedding,     *)
(* getValueHash, indexText and queryByText calls: every await of every     *)
(* call is a point where another call may run                              *)
(***************************************************************************)
ConcurrentNext ==
    \/ CallInit \/ InitStoreDimension \/ InitGetAllEntries \/ InitRebuildEntry
    \/ CallIndexEmbedding \/ CallByText \/ ProviderSettles
    \/ StoreNodeSettles \/ StoreValueSettles \/ IndexAdd \/ Tick

ConcurrentSpec == TextInit /\ [][ConcurrentNext]_vars

\* no node is held without its links: with another node in the index, every
\* node has a neighbour at layer 0
allLinked(ix) ==
    size(ix) > 1 => \A i \in DOMAIN ix.nodes : ix.nodes[i].connections[0] # <<>>

\* C36: index.add runs to completion without yielding, so under every
\* interleaving of concurrent calls on one instance, at every await the graph
\* invariants hold, no node is partially inserted, and the object of every
\* index_embedding call that has returned is indexed.
C36_AtomicAdd ==
    /\ dataModel(index)
    /\ allLinked(index)
    /\ \A x \in ghost.returned : has(index, x) /\ isIndexed(fac, index, x).result

\* two calls have returned and their nodes are linked while a third call is
\* suspended at an await
C36_Witness ==
    /\ size(index) = 2
    /\ Cardinality(ghost.returned) = 2
    /\ \E i \in DOMAIN calls :
           calls[i].op \in {"indexEmbedding", "indexText"} /\ calls[i].pc # "add"

\* the last call to finish was an indexEmbedding (or the indexEmbedding of an
\* indexText) that returned a MeaningDimensionValue id
returnedIndexed(o) ==
    o.op \in {"indexEmbedding", "indexText"} /\ o.err = "none" /\ o.result # NoHash

\* C37: after index_embedding(x, v) has returned, the index entry of x holds
\* v and the id of the MeaningNode this call persisted, the one named by the
\* MeaningDimensionValue whose id was returned - also when x had been indexed
\* before with another vector.
C37_IndexAgrees ==
    returnedIndexed(last) =>
        /\ has(index, last.id)
        /\ getNode(index, last.id).meaningNodeHash = last.result.hash.meaningNodeHash
        /\ getNode(index, last.id).embedding
               = last.result.hash.meaningNodeHash.hash.embedding

(***************************************************************************)
(* deserialize takes any document: here also snapshots that a facade       *)
(* configured with another metric or another model width has taken         *)
(***************************************************************************)
OtherSnapshot(dimensions, metric, embedding) ==
    serialize(add(newHNSWIndex(dimensions, metric, SmallConfig), 1,
                  SHA256(MeaningNode(embedding, "custom", dimensions, "elsewhere")),
                  embedding, 1).index)

OtherSnapshots ==
    {OtherSnapshot(Dimensions, "euclidean", <<3, 4>>), OtherSnapshot(1, DefaultMetric, BadVec)}

\* MeaningDimension.deserialize: this.index = HNSWIndex.deserialize(json)
DeserializeOther ==
    /\ \E json \in OtherSnapshots : index' = deserialize(json)
    /\ MayStep
    /\ ghost' = [ghost EXCEPT !.deserialized = TRUE, !.steps = @ + 1]
    /\ UNCHANGED <<last, fac, store, calls, now, saved>>

ReconfiguredNext == FacadeNext \/ DeserializeOther

ReconfiguredSpec == FacadeInit /\ [][ReconfiguredNext]_vars

\* C38: after any sequence of facade operations, deserialize among them, the
\* index has the dimensions and the metric the facade was configured with,
\* so no call whose vector passed the facade's validation is refused by the
\* index for its width.
C38_IndexMatchesFacade ==
    /\ index.dimensions = fac.dimensions
    /\ index.metric = fac.metric
    /\ last.err # "DimensionMismatch"

(***************************************************************************)
(* The level draw over the values of config.M the constructor takes:       *)
(* "this.config = {...DEFAULT_HNSW_CONFIG, ...config}" checks nothing       *)
(***************************************************************************)
LevelMs == 0..2

LevelInit ==
    /\ index \in {newHNSWIndex(Dimensions, "euclidean",
                                [M |-> m, efConstruction |-> 1, efSearch |-> 1]) :
                   m \in LevelMs}
    /\ last = NoCall
    /\ fac = Unused
    /\ store = Unused
    /\ calls = <<>>
    /\ now = 0
    /\ saved = Unused
    /\ ghost = Unused

LevelSpec == LevelInit /\ [][Add \/ Remove]_vars

\* C39: every node created by add has a level between 1 and 16 inclusive,
\* so no node has level 0 and a non-empty index built by add has
\* maxLevel >= 1.
C39_LevelRange ==
    /\ \A i \in DOMAIN index.nodes :
           index.nodes[i].level >= 1 /\ index.nodes[i].level <= LevelCeiling
    /\ size(index) > 0 => index.maxLevel >= 1

(***************************************************************************)
(* HNSWIndex.searchLayer over every graph of NumIds nodes at layer 0: any  *)
(* directed links, self links and links to an id that is not held among    *)
(* them.  The loop is the one of searchLayer; turns counts its iterations  *)
(* ("candidates.shift()") and enqueued lists the ids in the order they     *)
(* enter candidates.                                                       *)
(***************************************************************************)
GraphIds == 1..NumIds

GraphVec(i) == <<<<0, 0>>, <<3, 4>>, <<3, -4>>>>[((i - 1) % 3) + 1]

graphNode(i, links) ==
    [newNode(i, meaningNodeHashOf(GraphVec(i)), GraphVec(i), 0)
        EXCEPT !.connections = [l \in 0..0 |-> ascending(links)]]

graphOf(links) ==
    [newHNSWIndex(Dimensions, "euclidean", SmallConfig)
        EXCEPT !.entryPoint = 1,
               !.nodes = [i \in GraphIds |-> graphNode(i, links[i])]]

GraphInit ==
    /\ index \in {graphOf(links) : links \in [GraphIds -> SUBSET (1..(NumIds + 1))]}
    /\ last = NoCall
    /\ fac = Unused
    /\ store = Unused
    /\ calls = <<>>
    /\ now = 0
    /\ saved = Unused
    /\ ghost = Unused

idsOf(entries) == [i \in DOMAIN entries |-> entries[i].id]

RECURSIVE tracedLoop(_, _, _, _, _, _)
\* after the for loop of one turn: the entries pushed to candidates in it are
\* those behind the n - 1 that were left after the shift
tracedNext(ix, q, ef, level, st, n, tr) ==
    tracedLoop(ix, q, ef, level, st,
               [turns |-> tr.turns + 1,
                enqueued |-> tr.enqueued
                               \o idsOf(SubSeq(st.candidates, n, Len(st.candidates)))])

tracedTurn(ix, q, ef, level, visited, cs, rs, tr) ==
    IF RLess(rs[Len(rs)].dist, Head(cs).dist)
    THEN [turns |-> tr.turns + 1, enqueued |-> tr.enqueued, results |-> sortByDist(rs)]
    ELSE tracedNext(ix, q, ef, level,
             exploreNeighbors(ix, q, ef,
                 connectionsAt(getNode(ix, Head(cs).id), level), 1,
                 [visited |-> visited, candidates |-> Tail(cs), results |-> rs]),
             Len(cs), tr)

tracedLoop(ix, q, ef, level, st, tr) ==
    IF st.candidates = <<>>
    THEN [turns |-> tr.turns, enqueued |-> tr.enqueued, results |-> sortByDist(st.results)]
    ELSE tracedTurn(ix, q, ef, level, st.visited,
                    sortByDist(st.candidates), sortByDist(st.results), tr)

tracedStart(ix, q, ef, level, e) ==
    tracedLoop(ix, q, ef, level,
        [visited |-> {e.id}, candidates |-> <<e>>, results |-> <<e>>],
        [turns |-> 0, enqueued |-> <<e.id>>])

tracedBy(ix, q, entryId, ef, level) ==
    tracedStart(ix, q, ef, level,
        [id |-> entryId,
         dist |-> distance(ix.metric, q, getNode(ix, entryId).embedding)])

\* this.searchLayer(query, entryId, ef, 0).  searchLayer changes no field, so
\* a second call on the same graph sees what the first saw: one call is taken
SearchLayer ==
    \E q \in Vecs, entryId \in GraphIds, ef \in 1..(NumIds + 1) :
        /\ last = NoCall
        /\ last' = [NoCall EXCEPT !.op = "searchLayer", !.id = entryId,
                                  !.result = [query |-> q, ef |-> ef,
                                              trace |-> tracedBy(index, q, entryId, ef, 0)]]
        /\ UNCHANGED <<index, fac, store, calls, now, saved, ghost>>

GraphSpec == GraphInit /\ [][SearchLayer]_vars

enqueuedOnce(s) == \A i, j \in DOMAIN s : s[i] = s[j] => i = j

\* C40: searchLayer terminates on every finite graph, cyclic ones among
\* them: every id enters the candidate list at most once and is a held node,
\* so the loop takes at most as many turns as the index has nodes, and it
\* ends with the results searchLayer returns.
C40_SearchLayerEnds ==
    last.op = "searchLayer" =>
        /\ enqueuedOnce(last.result.trace.enqueued)
        /\ Range(last.result.trace.enqueued) \subseteq NodeIds(index)
        /\ last.result.trace.turns <= Len(last.result.trace.enqueued)
        /\ last.result.trace.turns <= size(index)
        /\ last.result.trace.results
              = searchLayer(index, last.result.query, last.id, last.result.ef, 0)

\* a search that went round a cycle through every node, one of them linked
\* to itself and one to an id that is not held, and took a turn for each
C40_Witness ==
    /\ last.op = "searchLayer"
    /\ last.result.trace.turns = NumIds
    /\ \A i \in GraphIds : ((i % NumIds) + 1) \in Range(getNode(index, i).connections[0])
    /\ 1 \in Range(getNode(index, 1).connections[0])
    /\ (NumIds + 1) \in Range(getNode(index, 2).connections[0])
====
